---- MODULE Spec2Model ----
(***************************************************************************)
(* Model of the long-running-operation poller of doc2x-client:             *)
(* waitWithPolling, withProcessingTimeout, waitForNextPoll and             *)
(* isTransientError, for one call of waitWithPolling; a second, concurrent  *)
(* call (SpecTwo) and the client methods that enter the poller (SpecWait). *)
(*                                                                         *)
(* Time is a discrete clock counted in seconds.  A fetch is an external    *)
(* call: it is issued, time may pass while it is in flight, and it returns *)
(* an outcome chosen by the environment.  evaluate is a synchronous        *)
(* callback, so its call is part of the step that handles a successful     *)
(* fetch.  A select whose cases are both ready picks either one.           *)
(***************************************************************************)
EXTENDS Integers, Sequences, FiniteSets, TLC

(* ---- bounds of the model ---- *)
MaxTime == 5
MaxFetches == 6
TwoMaxTime == 3

(* ---- program constants ---- *)
transientFetchRetryBudget == 3
ProcessingTimeout == 300
DefaultPollInterval == 2

(* ---- inputs ---- *)
PollIntervalArgs == {-1, 0, 1}
TimeoutArgs == {0, 2, 3}
CallerDeadlines == {[has |-> FALSE, at |-> 0]} \cup {[has |-> TRUE, at |-> d] : d \in {1, 4}}

NoDeadline == [has |-> FALSE, at |-> 0]
Nil == 0
NoErr == [kind |-> "nil"]

(* A fetch error, by the attributes isTransientError inspects: whether it   *)
(* is or wraps context.Canceled / context.DeadlineExceeded, whether it is a *)
(* net.Error and what its Timeout() and Temporary() report, and, when it is *)
(* not a net.Error, whether it exposes Temporary() and what that reports    *)
(* (an error with both methods is a net.Error; one with Timeout() alone is  *)
(* not).                                                                    *)
FetchErrors ==
  { e \in [kind : {"fetch"}, ctx : {"none", "Canceled", "DeadlineExceeded"},
           net : BOOLEAN, timeout : BOOLEAN, hasTemporary : BOOLEAN, temporary : BOOLEAN] :
      /\ e.net => e.hasTemporary
      /\ (e.timeout /\ ~e.net) => ~e.hasTemporary
      /\ e.temporary => e.hasTemporary }

EvalErrors == {[kind |-> "eval", text |-> "failed"]}

WaitError_LosesCause(operation, cause) ==
  [kind |-> "wait", operation |-> operation, cause |-> "Canceled"]
WaitError(operation, cause) == [kind |-> "wait", operation |-> operation, cause |-> cause]

VARIABLES
  pc,              \* "idle" | "fetch" (fetch in flight) | "wait" (in waitForNextPoll) | "done"
  now,             \* the clock
  callerDeadline,  \* deadline of the caller's context
  callerCancelled, \* the caller's context has been cancelled
  ctxErr,          \* ctx.Err() of the context the call runs under: "nil" | "Canceled" | "DeadlineExceeded"
  args,            \* pollInterval and timeout as passed by the caller, and the entry time
  pollInterval,    \* the local pollInterval after normalisation
  ctxDeadline,     \* deadline of the context returned by withProcessingTimeout
  childCtx,        \* "none" | "live" | "cancelled": the context created by context.WithTimeout
  ticker,          \* [running, next, pending]: the time.Ticker and its channel of capacity 1
  retriesLeft,
  result, err,     \* the values returned by the call
  fetchCount, evalCount, waitCount,  \* calls of fetch, evaluate, waitForNextPoll so far
  last,            \* what the most recent fetch (error, result body) and its evaluate returned
  hist,            \* the class of every fetch that has returned, in order
  lateFetches,     \* fetches issued after the deadline of the call's context had passed
  evalLog,         \* the results evaluate has been called on, in order (a result is named by its fetch)
  cancelSnap,      \* set when the caller cancels while the call is blocked in a tick wait
  call,            \* the client method that entered the poller, and its uid
  b,               \* the locals of a second, concurrent call of waitWithPolling
  client,          \* the client NewClient builds: its fields, the options applied, the last API request
  batch,           \* runParseBatch of the doc2x command: the errgroup, its jobs, errs and the return value
  job,             \* one handleParseFile: its position and the remote steps it has started
  flog             \* the failure log: the mutex, the concurrent logFailure calls, the file

\* the variables of the command-line tool
varsCLI == <<batch, job, flog>>
\* the variables of the client library
varsLib == <<pc, now, callerDeadline, callerCancelled, ctxErr, args, pollInterval, ctxDeadline,
             childCtx, ticker, retriesLeft, result, err, fetchCount, evalCount, waitCount,
             last, hist, lateFetches, evalLog, cancelSnap, call, b, client>>

\* the variables of the first call and its environment
varsA == <<pc, now, callerDeadline, callerCancelled, ctxErr, args, pollInterval, ctxDeadline,
           childCtx, ticker, retriesLeft, result, err, fetchCount, evalCount, waitCount,
           last, hist, lateFetches, evalLog, cancelSnap, call>>

vars == <<pc, now, callerDeadline, callerCancelled, ctxErr, args, pollInterval, ctxDeadline,
          childCtx, ticker, retriesLeft, result, err, fetchCount, evalCount, waitCount,
          last, hist, lateFetches, evalLog, cancelSnap, call, b, client, varsCLI>>

NoCall == [api |-> "none", uid |-> ""]
NoCancel == [blocked |-> FALSE, fetches |-> 0, waits |-> 0]
\* the data payload of a status response (present = FALSE: no payload in the response)
NoData == [present |-> FALSE, status |-> "", detail |-> "", url |-> ""]
\* a fetched result: the API code and the payload; NoBody where a fetch returned no result
NoBody == [code |-> "", data |-> NoData]
StoppedTicker == [running |-> FALSE, next |-> 0, pending |-> FALSE]
\* a nil *resty.Client, and one without an Authorization header set
NilResty == [origin |-> "nil", baseURL |-> "", auth |-> "", timeout |-> 0]
NoRequest == [api |-> "none", auth |-> ""]
\* before the command runs
NoBatch == [stage |-> "none", flag |-> 0, concurrency |-> 0, n |-> 0, next |-> 1,
            jobs |-> <<>>, mu |-> 0, errs |-> <<>>, cancelled |-> FALSE,
            ret |-> [nil |-> TRUE, count |-> 0, first |-> 0]]
NoJob == [stage |-> "none", pc |-> "", wait |-> FALSE, auto |-> FALSE, save |-> FALSE, inflight |-> FALSE,
          started |-> <<>>, completed |-> <<>>, failedAt |-> "", logged |-> 0, ret |-> "nil"]
\* the number of concurrent logFailure calls
MaxCalls == 3
NoLog == [stage |-> "none", path |-> "", mu |-> 0, file |-> <<>>,
          calls |-> [i \in 1..MaxCalls |-> [pc |-> "idle", ret |-> "nil"]]]
\* before NewClient is called
NoClient == [stage |-> "none", apiKey |-> "", processingTimeout |-> 0, restyClient |-> NilResty,
             transferClient |-> NilResty, newKey |-> "", opts |-> <<>>, req |-> NoRequest]
BIdle == [pc |-> "idle", pollInterval |-> 0, ctxDeadline |-> NoDeadline, ctxErr |-> "nil",
          ticker |-> StoppedTicker, retriesLeft |-> 0, fetches |-> 0,
          result |-> Nil, err |-> NoErr]

(* ---- pure functions ---- *)

isTransientError_NetFirst(e) ==
  IF e = NoErr THEN FALSE
  ELSE IF e.net THEN e.timeout \/ e.temporary
  ELSE IF e.ctx \in {"Canceled", "DeadlineExceeded"} THEN FALSE
  ELSE e.hasTemporary /\ e.temporary
isTransientError_AnyTimeout(e) ==
  IF e = NoErr THEN FALSE
  ELSE IF e.ctx \in {"Canceled", "DeadlineExceeded"} THEN FALSE
  ELSE e.timeout \/ (e.hasTemporary /\ e.temporary)
isTransientError(e) ==
  IF e = NoErr THEN FALSE
  ELSE IF e.ctx \in {"Canceled", "DeadlineExceeded"} THEN FALSE
  ELSE IF e.net THEN e.timeout \/ e.temporary
  ELSE e.hasTemporary /\ e.temporary

\* the guard of the retry branch: retriesLeft > 0 && isTransientError(err)
ShouldRetry_IgnoreBudget(rl, e) == isTransientError(e)
ShouldRetry_AnyError(rl, e) == rl > 0
ShouldRetry_NonNegative(rl, e) == rl >= 0 /\ isTransientError(e)
ShouldRetry_OffByOne(rl, e) == rl > 1 /\ isTransientError(e)
ShouldRetry(rl, e) == rl > 0 /\ isTransientError(e)

\* retriesLeft after a successful fetch: retriesLeft = transientFetchRetryBudget
BudgetAfterSuccess_Keep(rl) == rl
BudgetAfterSuccess(rl) == transientFetchRetryBudget

\* what the loop does with evaluate's (done, evalErr): evalErr is checked before done
EvalDecision_DoneFirst(done, evalErr) ==
  IF done THEN "return result" ELSE IF evalErr # NoErr THEN "return error" ELSE "wait"
EvalDecision_IgnoreDone(done, evalErr) ==
  IF evalErr # NoErr THEN "return error" ELSE "return result"
EvalDecision(done, evalErr) ==
  IF evalErr # NoErr THEN "return error" ELSE IF done THEN "return result" ELSE "wait"

NormalizeInterval_ZeroOnly(p) == IF p = 0 THEN DefaultPollInterval ELSE p
NormalizeInterval(p) == IF p <= 0 THEN DefaultPollInterval ELSE p

\* the deadline of the context withProcessingTimeout returns
withProcessingTimeout_Earliest(parent, t, timeout) ==
  LET d == t + (IF timeout <= 0 THEN ProcessingTimeout ELSE timeout)
  IN  IF parent.has /\ parent.at <= d THEN parent ELSE [has |-> TRUE, at |-> d]
withProcessingTimeout(parent, t, timeout) ==
  IF parent.has THEN parent
  ELSE [has |-> TRUE, at |-> t + (IF timeout <= 0 THEN ProcessingTimeout ELSE timeout)]

Expired(d, t) == d.has /\ t >= d.at

\* the results evaluate has been called on after a fetch returned (ferr, result r):
\* evaluate is reached only when err == nil
EvalCalls_Always(log, ferr, r) == Append(log, r)
EvalCalls(log, ferr, r) == IF ferr = NoErr THEN Append(log, r) ELSE log

\* a ticker of period d when the clock reaches t: the tick is sent without blocking
\* to a channel of capacity 1
TickerAt_Unbuffered(tk, d, t) ==
  IF tk.running /\ t = tk.next
  THEN [running |-> TRUE, next |-> tk.next + d, pending |-> tk.pending]
  ELSE tk
TickerAt(tk, d, t) ==
  IF tk.running /\ t = tk.next
  THEN [running |-> TRUE, next |-> tk.next + d, pending |-> TRUE]
  ELSE tk

\* ctx.Err() of a context of deadline dl when the clock reaches t
CtxErrAt(ce, dl, t) == IF ce = "nil" /\ Expired(dl, t) THEN "DeadlineExceeded" ELSE ce

\* a select in waitForNextPoll that has a ready case
SelectReady(p, tk, ce) == p = "wait" /\ (tk.pending \/ ce # "nil")

Class(e, done, evalErr) ==
  IF e # NoErr THEN (IF isTransientError(e) THEN "transient" ELSE "permanent")
  ELSE IF evalErr # NoErr THEN "evalerr"
  ELSE IF done THEN "done" ELSE "pending"

\* the context the program is running under: the caller's before the call, the call's afterwards
CurDeadline == IF pc = "idle" THEN callerDeadline ELSE ctxDeadline
CtxDone == ctxErr # "nil"

Init ==
  /\ pc = "idle"
  /\ now = 0
  /\ callerDeadline \in CallerDeadlines
  /\ callerCancelled = FALSE
  /\ ctxErr = "nil"
  /\ args = [pollInterval |-> 0, timeout |-> 0, entry |-> 0, operation |-> ""]
  /\ pollInterval = 0
  /\ ctxDeadline = NoDeadline
  /\ childCtx = "none"
  /\ ticker = StoppedTicker
  /\ retriesLeft = 0
  /\ result = Nil
  /\ err = NoErr
  /\ fetchCount = 0
  /\ evalCount = 0
  /\ waitCount = 0
  /\ last = [ferr |-> NoErr, done |-> FALSE, everr |-> NoErr, body |-> NoBody]
  /\ hist = <<>>
  /\ lateFetches = 0
  /\ evalLog = <<>>
  /\ cancelSnap = NoCancel
  /\ call = NoCall
  /\ b = BIdle
  /\ client = NoClient
  /\ batch = NoBatch
  /\ job = NoJob
  /\ flog = NoLog

(* ---- environment ---- *)

\* the caller cancels its context; the call's context is derived from it
CallerCancel ==
  /\ pc # "done"
  /\ ~callerCancelled
  /\ callerCancelled' = TRUE
  /\ ctxErr' = IF ctxErr = "nil" THEN "Canceled" ELSE ctxErr
  /\ cancelSnap' = IF pc = "wait" /\ ~SelectReady(pc, ticker, ctxErr)
                   THEN [blocked |-> TRUE, fetches |-> fetchCount, waits |-> waitCount]
                   ELSE NoCancel
  /\ UNCHANGED <<pc, now, callerDeadline, args, pollInterval, ctxDeadline, childCtx, ticker,
                 retriesLeft, result, err, fetchCount, evalCount, waitCount, last, hist, lateFetches,
                 evalLog, call, b, client, varsCLI>>

\* one second passes: the ticker may fire (a tick is dropped when one is already
\* held by the channel) and the deadline may expire.  A select with a ready case
\* does not let time pass.
AdvanceTime ==
  /\ now < MaxTime
  /\ \/ pc \in {"idle", "fetch"}
     \/ pc = "wait" /\ ~ticker.pending /\ ~CtxDone
     \/ pc = "done" /\ b.pc \in {"fetch", "wait"}
  /\ ~SelectReady(b.pc, b.ticker, b.ctxErr)
  /\ now' = now + 1
  /\ ticker' = TickerAt(ticker, pollInterval, now')
  /\ ctxErr' = CtxErrAt(ctxErr, CurDeadline, now')
  /\ b' = [b EXCEPT !.ticker = TickerAt(b.ticker, b.pollInterval, now'),
                     !.ctxErr = CtxErrAt(b.ctxErr, b.ctxDeadline, now')]
  /\ UNCHANGED <<pc, callerDeadline, callerCancelled, args, pollInterval, ctxDeadline, childCtx,
                 retriesLeft, result, err, fetchCount, evalCount, waitCount, last, hist, lateFetches,
                 evalLog, cancelSnap, call, client, varsCLI>>

(* ---- waitWithPolling ---- *)

\* the deferred ticker.Stop() and cancel() run on every return
Return_NoDefers(r, e) ==
  /\ pc' = "done"
  /\ result' = r
  /\ err' = e
  /\ ticker' = ticker
  /\ childCtx' = childCtx
Return(r, e) ==
  /\ pc' = "done"
  /\ result' = r
  /\ err' = e
  /\ ticker' = [ticker EXCEPT !.running = FALSE]
  /\ childCtx' = IF childCtx = "live" THEN "cancelled" ELSE childCtx

\* the call of fetch at the top of the loop
IssueFetch ==
  /\ pc' = "fetch"
  /\ fetchCount' = fetchCount + 1

\* entry of waitWithPolling up to the first call of fetch
EnterPoll_CheckCtxFirst(p, t, operation) ==
  /\ pc = "idle"
  /\ args' = [pollInterval |-> p, timeout |-> t, entry |-> now, operation |-> operation]
  /\ pollInterval' = NormalizeInterval(p)
  /\ ctxDeadline' = withProcessingTimeout(callerDeadline, now, t)
  /\ retriesLeft' = transientFetchRetryBudget
  /\ IF CtxDone
     THEN /\ pc' = "done"
          /\ result' = Nil
          /\ err' = WaitError(operation, ctxErr)
          /\ UNCHANGED <<childCtx, ticker, fetchCount, lateFetches>>
     ELSE /\ childCtx' = IF callerDeadline.has THEN "none" ELSE "live"
          /\ ticker' = [running |-> TRUE, next |-> now + NormalizeInterval(p), pending |-> FALSE]
          /\ IssueFetch
          /\ lateFetches' = 0
          /\ UNCHANGED <<result, err>>
  /\ UNCHANGED <<now, callerDeadline, callerCancelled, ctxErr, evalCount, waitCount,
                 last, hist, evalLog, cancelSnap, b, client, varsCLI>>
EnterPoll(p, t, operation) ==
  /\ pc = "idle"
  /\ args' = [pollInterval |-> p, timeout |-> t, entry |-> now, operation |-> operation]
  /\ pollInterval' = NormalizeInterval(p)
  /\ ctxDeadline' = withProcessingTimeout(callerDeadline, now, t)
  /\ childCtx' = IF callerDeadline.has THEN "none" ELSE "live"
  /\ ticker' = [running |-> TRUE, next |-> now + NormalizeInterval(p), pending |-> FALSE]
  /\ retriesLeft' = transientFetchRetryBudget
  /\ IssueFetch
  /\ lateFetches' = IF Expired(callerDeadline, now) THEN 1 ELSE 0
  /\ UNCHANGED <<now, callerDeadline, callerCancelled, ctxErr, result, err, evalCount, waitCount,
                 last, hist, evalLog, cancelSnap, b, client, varsCLI>>

\* a direct call of waitWithPolling
Entry(p, t) == EnterPoll(p, t, "op") /\ UNCHANGED call

\* fetch returns an error
FetchError_RetryNow(e) ==
  /\ pc = "fetch"
  /\ last' = [ferr |-> e, done |-> FALSE, everr |-> NoErr, body |-> NoBody]
  /\ hist' = Append(hist, Class(e, FALSE, NoErr))
  /\ IF ShouldRetry(retriesLeft, e)
     THEN /\ retriesLeft' = retriesLeft - 1
          /\ fetchCount < MaxFetches
          /\ IssueFetch
          /\ UNCHANGED <<result, err, ticker, childCtx, waitCount>>
     ELSE /\ Return(Nil, e)
          /\ UNCHANGED <<retriesLeft, waitCount, fetchCount>>
  /\ evalLog' = EvalCalls(evalLog, e, fetchCount)
  /\ UNCHANGED <<now, callerDeadline, callerCancelled, ctxErr, args, pollInterval, ctxDeadline,
                 evalCount, lateFetches, cancelSnap, call, b, client, varsCLI>>
FetchError_WrapsCtx(e) ==
  /\ pc = "fetch"
  /\ last' = [ferr |-> e, done |-> FALSE, everr |-> NoErr, body |-> NoBody]
  /\ hist' = Append(hist, Class(e, FALSE, NoErr))
  /\ IF ShouldRetry(retriesLeft, e)
     THEN /\ retriesLeft' = retriesLeft - 1
          /\ pc' = "wait"
          /\ waitCount' = waitCount + 1
          /\ UNCHANGED <<result, err, ticker, childCtx>>
     ELSE /\ Return(Nil, IF e.ctx = "none" THEN e ELSE WaitError(args.operation, e.ctx))
          /\ UNCHANGED <<retriesLeft, waitCount>>
  /\ evalLog' = EvalCalls(evalLog, e, fetchCount)
  /\ UNCHANGED <<now, callerDeadline, callerCancelled, ctxErr, args, pollInterval, ctxDeadline,
                 fetchCount, evalCount, lateFetches, cancelSnap, call, b, client, varsCLI>>
FetchError(e) ==
  /\ pc = "fetch"
  /\ last' = [ferr |-> e, done |-> FALSE, everr |-> NoErr, body |-> NoBody]
  /\ hist' = Append(hist, Class(e, FALSE, NoErr))
  /\ IF ShouldRetry(retriesLeft, e)
     THEN /\ retriesLeft' = retriesLeft - 1
          /\ pc' = "wait"
          /\ waitCount' = waitCount + 1
          /\ UNCHANGED <<result, err, ticker, childCtx>>
     ELSE /\ Return(Nil, e)
          /\ UNCHANGED <<retriesLeft, waitCount>>
  /\ evalLog' = EvalCalls(evalLog, e, fetchCount)
  /\ UNCHANGED <<now, callerDeadline, callerCancelled, ctxErr, args, pollInterval, ctxDeadline,
                 fetchCount, evalCount, lateFetches, cancelSnap, call, b, client, varsCLI>>

\* fetch returns a result; evaluate is called on it and returns (done, evalErr)
FetchOkBody(done, evalErr, body) ==
  /\ pc = "fetch"
  /\ last' = [ferr |-> NoErr, done |-> done, everr |-> evalErr, body |-> body]
  /\ hist' = Append(hist, Class(NoErr, done, evalErr))
  /\ retriesLeft' = BudgetAfterSuccess(retriesLeft)
  /\ evalCount' = evalCount + 1
  /\ IF EvalDecision(done, evalErr) = "return error" THEN Return(Nil, evalErr) /\ UNCHANGED waitCount
     ELSE IF EvalDecision(done, evalErr) = "return result" THEN Return(fetchCount, NoErr) /\ UNCHANGED waitCount
     ELSE /\ pc' = "wait"
          /\ waitCount' = waitCount + 1
          /\ UNCHANGED <<result, err, ticker, childCtx>>
  /\ evalLog' = EvalCalls(evalLog, NoErr, fetchCount)
  /\ UNCHANGED <<now, callerDeadline, callerCancelled, ctxErr, args, pollInterval, ctxDeadline,
                 fetchCount, lateFetches, cancelSnap, call, b, client, varsCLI>>

\* a fetch whose result the model does not look into
FetchOk(done, evalErr) == FetchOkBody(done, evalErr, NoBody)

\* waitForNextPoll: case <-ticker.C, then the loop calls fetch again
WaitTick_Overlapping ==
  /\ pc \in {"wait", "fetch"}
  /\ ticker.pending
  /\ fetchCount < MaxFetches
  /\ ticker' = [ticker EXCEPT !.pending = FALSE]
  /\ IssueFetch
  /\ lateFetches' = IF Expired(ctxDeadline, now) THEN lateFetches + 1 ELSE lateFetches
  /\ UNCHANGED <<now, callerDeadline, callerCancelled, ctxErr, args, pollInterval, ctxDeadline,
                 childCtx, retriesLeft, result, err, evalCount, waitCount, last, hist,
                 evalLog, cancelSnap, call, b, client, varsCLI>>
WaitTick ==
  /\ pc = "wait"
  /\ ticker.pending
  /\ fetchCount < MaxFetches
  /\ ticker' = [ticker EXCEPT !.pending = FALSE]
  /\ IssueFetch
  /\ lateFetches' = IF Expired(ctxDeadline, now) THEN lateFetches + 1 ELSE lateFetches
  /\ UNCHANGED <<now, callerDeadline, callerCancelled, ctxErr, args, pollInterval, ctxDeadline,
                 childCtx, retriesLeft, result, err, evalCount, waitCount, last, hist,
                 evalLog, cancelSnap, call, b, client, varsCLI>>

\* waitForNextPoll: case <-ctx.Done()
WaitCancelled_Refetch ==
  /\ pc = "wait"
  /\ CtxDone
  /\ fetchCount < MaxFetches
  /\ IssueFetch
  /\ UNCHANGED <<now, callerDeadline, callerCancelled, ctxErr, args, pollInterval, ctxDeadline,
                 childCtx, ticker, retriesLeft, result, err, evalCount, waitCount, last, hist,
                 lateFetches, evalLog, cancelSnap, call, b, client, varsCLI>>
WaitCancelled ==
  /\ pc = "wait"
  /\ CtxDone
  /\ Return(Nil, WaitError(args.operation, ctxErr))
  /\ UNCHANGED <<now, callerDeadline, callerCancelled, ctxErr, args, pollInterval, ctxDeadline,
                 retriesLeft, fetchCount, evalCount, waitCount, last, hist, lateFetches,
                 evalLog, cancelSnap, call, b, client, varsCLI>>

Next ==
  \/ CallerCancel
  \/ AdvanceTime
  \/ \E p \in PollIntervalArgs, t \in TimeoutArgs : Entry(p, t)
  \/ \E e \in FetchErrors : FetchError(e)
  \/ \E d \in BOOLEAN, ee \in EvalErrors \cup {NoErr} : FetchOk(d, ee)
  \/ WaitTick
  \/ WaitCancelled

Spec == Init /\ [][Next]_vars

(* ---- the client methods that enter the poller ---- *)

Apis == {"WaitForParsing", "WaitForConversion", "WaitForImageLayout"}
UIDs == {"", "uid-1"}
\* values of c.processingTimeout
ClientTimeouts == {2}
ErrEmptyUID == [kind |-> "ErrEmptyUID"]

\* the operation label each method passes to waitWithPolling
OperationLabel(api) ==
  CASE api = "WaitForParsing" -> "parsing"
    [] api = "WaitForConversion" -> "conversion"
    [] api = "WaitForImageLayout" -> "image layout"

\* the validation at the top of each method: uid == ""
EmptyUID_Never(uid) == FALSE
EmptyUID(uid) == uid = ""

\* WaitForParsing, WaitForConversion, WaitForImageLayout up to the first fetch
WaitFor(api, uid, p, t) ==
  /\ pc = "idle"
  /\ call' = [api |-> api, uid |-> uid]
  /\ IF EmptyUID(uid)
     THEN /\ pc' = "done"
          /\ result' = Nil
          /\ err' = ErrEmptyUID
          /\ UNCHANGED <<now, callerDeadline, callerCancelled, ctxErr, args, pollInterval,
                         ctxDeadline, childCtx, ticker, retriesLeft, fetchCount, evalCount,
                         waitCount, last, hist, lateFetches, evalLog, cancelSnap, b, client, varsCLI>>
     ELSE EnterPoll(p, t, OperationLabel(api))

InitWait == Init /\ callerDeadline = NoDeadline

NextWait ==
  \/ CallerCancel
  \/ AdvanceTime
  \/ \E api \in Apis, uid \in UIDs, p \in PollIntervalArgs, t \in ClientTimeouts :
       WaitFor(api, uid, p, t)
  \/ \E e \in FetchErrors : FetchError(e)
  \/ \E d \in BOOLEAN, ee \in EvalErrors \cup {NoErr} : FetchOk(d, ee)
  \/ WaitTick
  \/ WaitCancelled

SpecWait == InitWait /\ [][NextWait]_vars

(* ---- a second call of waitWithPolling, running concurrently ---- *)

\* inputs of the two-call specification
TwoIntervals == {1}
TwoTimeouts == {2}
TwoErrors == {e \in FetchErrors : e.ctx = "none" /\ ~e.net /\ ~e.timeout}

BReturn(r, e) ==
  [b EXCEPT !.pc = "done", !.result = r, !.err = e, !.ticker.running = FALSE]

\* entry of the second call (its caller's context has no deadline) up to its first fetch
BEntry(p, t) ==
  /\ b.pc = "idle"
  /\ b' = [pc |-> "fetch",
           pollInterval |-> NormalizeInterval(p),
           ctxDeadline |-> withProcessingTimeout(NoDeadline, now, t),
           ctxErr |-> "nil",
           ticker |-> [running |-> TRUE, next |-> now + NormalizeInterval(p), pending |-> FALSE],
           retriesLeft |-> transientFetchRetryBudget,
           fetches |-> 1,
           result |-> Nil,
           err |-> NoErr]
  /\ UNCHANGED <<varsA, client, varsCLI>>

\* the caller of the second call cancels its context
BCancel ==
  /\ b.pc \in {"fetch", "wait"}
  /\ b.ctxErr = "nil"
  /\ b' = [b EXCEPT !.ctxErr = "Canceled"]
  /\ UNCHANGED <<varsA, client, varsCLI>>

\* a bug in which retriesLeft is a package-level variable shared by all calls
BFetchError_SharedBudget(e) ==
  /\ b.pc = "fetch"
  /\ IF ShouldRetry(retriesLeft, e)
     THEN /\ retriesLeft' = retriesLeft - 1
          /\ b' = [b EXCEPT !.pc = "wait"]
     ELSE /\ b' = BReturn(Nil, e)
          /\ UNCHANGED retriesLeft
  /\ UNCHANGED <<pc, now, callerDeadline, callerCancelled, ctxErr, args, pollInterval,
                 ctxDeadline, childCtx, ticker, result, err, fetchCount, evalCount, waitCount,
                 last, hist, lateFetches, evalLog, cancelSnap, call, client, varsCLI>>
\* a fetch of the second call returns an error
BFetchError(e) ==
  /\ b.pc = "fetch"
  /\ b' = IF ShouldRetry(b.retriesLeft, e)
          THEN [b EXCEPT !.retriesLeft = b.retriesLeft - 1, !.pc = "wait"]
          ELSE BReturn(Nil, e)
  /\ UNCHANGED <<varsA, client, varsCLI>>

\* a fetch of the second call returns a result and evaluate is called on it
BFetchOk(done, evalErr) ==
  /\ b.pc = "fetch"
  /\ b' = IF EvalDecision(done, evalErr) = "return error"
          THEN [BReturn(Nil, evalErr) EXCEPT !.retriesLeft = BudgetAfterSuccess(b.retriesLeft)]
          ELSE IF EvalDecision(done, evalErr) = "return result"
          THEN [BReturn(b.fetches, NoErr) EXCEPT !.retriesLeft = BudgetAfterSuccess(b.retriesLeft)]
          ELSE [b EXCEPT !.retriesLeft = BudgetAfterSuccess(b.retriesLeft), !.pc = "wait"]
  /\ UNCHANGED <<varsA, client, varsCLI>>

\* waitForNextPoll of the second call: case <-ticker.C, then its next fetch
BWaitTick ==
  /\ b.pc = "wait"
  /\ b.ticker.pending
  /\ b.fetches < MaxFetches
  /\ b' = [b EXCEPT !.pc = "fetch", !.ticker.pending = FALSE, !.fetches = b.fetches + 1]
  /\ UNCHANGED <<varsA, client, varsCLI>>

\* waitForNextPoll of the second call: case <-ctx.Done()
BWaitCancelled ==
  /\ b.pc = "wait"
  /\ b.ctxErr # "nil"
  /\ b' = BReturn(Nil, WaitError("op", b.ctxErr))
  /\ UNCHANGED <<varsA, client, varsCLI>>

InitTwo == Init /\ callerDeadline = NoDeadline

NextTwo ==
  \/ AdvanceTime /\ now < TwoMaxTime
  \/ \E p \in TwoIntervals, t \in TwoTimeouts : Entry(p, t)
  \/ \E e \in TwoErrors : FetchError(e)
  \/ \E d \in BOOLEAN : FetchOk(d, NoErr)
  \/ WaitTick
  \/ WaitCancelled
  \/ \E p \in TwoIntervals, t \in TwoTimeouts : BEntry(p, t)
  \/ BCancel
  \/ \E e \in TwoErrors : BFetchError(e)
  \/ \E d \in BOOLEAN, ee \in EvalErrors \cup {NoErr} : BFetchOk(d, ee)
  \/ BWaitTick
  \/ BWaitCancelled

SpecTwo == InitTwo /\ [][NextTwo]_vars

(* ---- the status fetchers and the evaluators of the client methods ---- *)

\* what the service may answer to a status request
HttpStatuses == {200, 500}
CodeSuccess == "success"
ApiCodes == {"", CodeSuccess, "parse_error"}
StatusValues == {"processing", "success", "failed"}
Details == {"", "bad formula"}
URLs == {"", "https://dl"}

\* the payloads by endpoint: parse and image layout status carry a detail, the
\* conversion result carries a download URL
PayloadsOf(api) ==
  {NoData} \cup
  (IF api = "WaitForConversion"
   THEN {[present |-> TRUE, status |-> st, detail |-> "", url |-> u] : st \in StatusValues, u \in URLs}
   ELSE {[present |-> TRUE, status |-> st, detail |-> d, url |-> ""] : st \in StatusValues, d \in Details})

\* transport errors of a status request (the fetchers wrap them with %w)
TransportErrors == TwoErrors

\* resp.IsSuccess()
IsSuccess(http) == http > 199 /\ http < 300

\* ensureAPISuccess(code, msg) == nil
ensureAPISuccess_Strict(code) == code = CodeSuccess
ensureAPISuccess(code) == code = "" \/ code = CodeSuccess

\* errStatus and errCode build their error with fmt.Errorf and no %w: the error wraps
\* nothing, is no net.Error and has no Temporary(); its text holds the HTTP status or
\* the API code
errStatus(statusCode) ==
  [kind |-> "fetch", ctx |-> "none", net |-> FALSE, timeout |-> FALSE, hasTemporary |-> FALSE,
   temporary |-> FALSE, origin |-> "status", status |-> statusCode, code |-> ""]
errCode(code) ==
  [kind |-> "fetch", ctx |-> "none", net |-> FALSE, timeout |-> FALSE, hasTemporary |-> FALSE,
   temporary |-> FALSE, origin |-> "code", status |-> 0, code |-> code]

\* GetStatus, GetConvertResult, GetImageLayoutStatus on an HTTP response h
GetStatus(h) ==
  IF ~IsSuccess(h.http) THEN [result |-> NoBody, err |-> errStatus(h.http)]
  ELSE IF ~ensureAPISuccess(h.code) THEN [result |-> NoBody, err |-> errCode(h.code)]
  ELSE [result |-> [code |-> h.code, data |-> h.data], err |-> NoErr]

Pending == [done |-> FALSE, err |-> NoErr]
Done == [done |-> TRUE, err |-> NoErr]
EvalFailure(text, detail) == [done |-> FALSE, err |-> [kind |-> "eval", text |-> text, detail |-> detail]]

\* the evaluator of WaitForParsing and of WaitForImageLayout (Data is a pointer)
EvalStatus_FailedPending(text, body) ==
  IF ~body.data.present THEN Pending
  ELSE IF body.data.status = "success" THEN Done
  ELSE Pending
EvalStatus_NilDone(text, body) ==
  IF ~body.data.present THEN Done
  ELSE IF body.data.status = "success" THEN Done
  ELSE IF body.data.status = "failed"
       THEN EvalFailure(text, IF body.data.detail = "" THEN "unknown error" ELSE body.data.detail)
  ELSE Pending
EvalStatus(text, body) ==
  IF ~body.data.present THEN Pending
  ELSE IF body.data.status = "success" THEN Done
  ELSE IF body.data.status = "failed"
       THEN EvalFailure(text, IF body.data.detail = "" THEN "unknown error" ELSE body.data.detail)
  ELSE Pending

\* the evaluator of WaitForConversion (Data is a struct value: a response without
\* payload decodes to the zero value, status "" and URL "")
EvalConversion_EmptyURLPending(body) ==
  IF body.data.status = "success"
  THEN (IF body.data.url = "" THEN Pending ELSE Done)
  ELSE IF body.data.status = "failed" THEN EvalFailure("conversion failed", "")
  ELSE Pending
EvalConversion(body) ==
  IF body.data.status = "success"
  THEN (IF body.data.url = ""
        THEN EvalFailure("conversion succeeded but no download URL provided", "")
        ELSE Done)
  ELSE IF body.data.status = "failed" THEN EvalFailure("conversion failed", "")
  ELSE Pending

Evaluate(api, body) ==
  CASE api = "WaitForParsing" -> EvalStatus("parse failed", body)
    [] api = "WaitForImageLayout" -> EvalStatus("image layout failed", body)
    [] api = "WaitForConversion" -> EvalConversion(body)

\* the status request of the method's fetcher gets the HTTP response h; a result is
\* handed to the method's evaluator
StatusResponse(h) ==
  /\ call.api \in Apis
  /\ h.data \in PayloadsOf(call.api)
  /\ IF GetStatus(h).err # NoErr
     THEN FetchError(GetStatus(h).err)
     ELSE FetchOkBody(Evaluate(call.api, GetStatus(h).result).done,
                      Evaluate(call.api, GetStatus(h).result).err,
                      GetStatus(h).result)

\* the status request fails in transport
StatusTransportError(e) == call.api \in Apis /\ FetchError(e)

NextStatus ==
  \/ AdvanceTime
  \/ \E api \in Apis, uid \in UIDs, p \in TwoIntervals, t \in ClientTimeouts :
       WaitFor(api, uid, p, t)
  \/ \E http \in HttpStatuses, code \in ApiCodes, api \in Apis : \E data \in PayloadsOf(api) :
       StatusResponse([http |-> http, code |-> code, data |-> data])
  \/ \E e \in TransportErrors : StatusTransportError(e)
  \/ WaitTick
  \/ WaitCancelled

SpecStatus == InitWait /\ [][NextStatus]_vars

(* ---- NewClient and its options ---- *)

\* the number of options passed to NewClient
MaxOpts == 3

DefaultTimeout == 300
DefaultBaseURL == "https://v2.doc2x.noedgeai.com"

\* arguments of NewClient and of the options
ApiKeys == {"sk-xxx", "sk-yyy"}
BaseURLs == {"http://mock"}
DurationArgs == {-1, 0, 7}
\* a caller's *resty.Client: nil, or a client made with resty.New()
RestyArgs == {NilResty, [origin |-> "custom", baseURL |-> "", auth |-> "", timeout |-> 0]}
\* the requests sent through restyClient, and the one sent through transferClient
ApiRequests == {"PreUpload", "GetStatus", "ConvertParse", "GetConvertResult"}
TransferRequests == {"UploadToPresignedURL"}

\* "Bearer "+apiKey
Bearer(apiKey) == "Bearer " \o apiKey

newDefaultAPIClient ==
  [origin |-> "default", baseURL |-> DefaultBaseURL, auth |-> "", timeout |-> DefaultTimeout]
newTransferClient(timeout) ==
  [origin |-> "transfer", baseURL |-> "", auth |-> "", timeout |-> timeout]

\* the options, as functions of the client they are applied to
WithBaseURL(c, baseURL) == [c EXCEPT !.restyClient.baseURL = baseURL]
WithTimeout(c, timeout) ==
  IF timeout > 0 THEN [c EXCEPT !.restyClient.timeout = timeout] ELSE c
WithAPIKey(c, apiKey) ==
  [c EXCEPT !.apiKey = apiKey, !.restyClient.auth = Bearer(apiKey)]
WithRestyClient(c, restyClient) ==
  IF restyClient # NilResty THEN [c EXCEPT !.restyClient = restyClient] ELSE c
WithTransferClient_AdoptsTimeout(c, transfer) ==
  IF transfer # NilResty
  THEN [c EXCEPT !.transferClient = [transfer EXCEPT !.timeout = c.processingTimeout]]
  ELSE c
WithTransferClient(c, transfer) ==
  IF transfer # NilResty THEN [c EXCEPT !.transferClient = transfer] ELSE c
WithProcessingTimeout_Unchecked(c, timeout) ==
  [c EXCEPT !.processingTimeout = timeout,
            !.transferClient.timeout = IF c.transferClient # NilResty THEN timeout ELSE @]
WithProcessingTimeout(c, timeout) ==
  IF timeout > 0
  THEN [c EXCEPT !.processingTimeout = timeout,
                 !.transferClient.timeout = IF c.transferClient # NilResty THEN timeout ELSE @]
  ELSE c

\* NewClient(apiKey, opts...) up to the loop over opts
NewClientCall(apiKey) ==
  /\ client.stage = "none"
  /\ client' = [stage |-> "opts", apiKey |-> apiKey, processingTimeout |-> ProcessingTimeout,
                restyClient |-> newDefaultAPIClient, transferClient |-> NilResty,
                newKey |-> apiKey, opts |-> <<>>, req |-> NoRequest]
  /\ UNCHANGED <<varsA, b, varsCLI>>

\* one iteration of the loop over opts: opt(c)
ApplyOption(name, arg, c) ==
  /\ client.stage = "opts"
  /\ Len(client.opts) < MaxOpts
  /\ client' = [c EXCEPT !.opts = Append(@, [name |-> name, arg |-> arg])]
  /\ UNCHANGED <<varsA, b, varsCLI>>

\* the end of NewClient: the defaults for a nil restyClient and a nil transferClient
NewClientReturn ==
  /\ client.stage = "opts"
  /\ client' = [client EXCEPT
       !.stage = "built",
       !.restyClient = IF @ = NilResty THEN newDefaultAPIClient ELSE @,
       !.transferClient = IF @ = NilResty THEN newTransferClient(client.processingTimeout) ELSE @]
  /\ UNCHANGED <<varsA, b, varsCLI>>

\* an API method sends its request with c.restyClient.R(): the client's headers go with it
ApiRequest(api) ==
  /\ client.stage = "built"
  /\ client' = [client EXCEPT !.req = [api |-> api, auth |-> client.restyClient.auth]]
  /\ UNCHANGED <<varsA, b, varsCLI>>

\* an upload to a presigned URL goes through c.transferClient.R()
TransferRequest(api) ==
  /\ client.stage = "built"
  /\ client' = [client EXCEPT !.req = [api |-> api, auth |-> client.transferClient.auth]]
  /\ UNCHANGED <<varsA, b, varsCLI>>

InitClient == Init /\ callerDeadline = NoDeadline

NextClient ==
  \/ \E k \in ApiKeys : NewClientCall(k)
  \/ \E u \in BaseURLs : ApplyOption("WithBaseURL", u, WithBaseURL(client, u))
  \/ \E t \in DurationArgs : ApplyOption("WithTimeout", t, WithTimeout(client, t))
  \/ \E k \in ApiKeys : ApplyOption("WithAPIKey", k, WithAPIKey(client, k))
  \/ \E r \in RestyArgs : ApplyOption("WithRestyClient", r.origin, WithRestyClient(client, r))
  \/ \E r \in RestyArgs : ApplyOption("WithTransferClient", r.origin, WithTransferClient(client, r))
  \/ \E t \in DurationArgs :
       ApplyOption("WithProcessingTimeout", t, WithProcessingTimeout(client, t))
  \/ NewClientReturn
  \/ \E api \in ApiRequests : ApiRequest(api)
  \/ \E api \in TransferRequests : TransferRequest(api)

SpecClient == InitClient /\ [][NextClient]_vars

(* ---- the parse command: runParseBatch ---- *)

\* the number of input files of a batch
MaxFiles == 4

\* values of the --concurrency flag
ConcurrencyFlags == {-1, 0, 1, 2}
DefaultConcurrency == 3

\* parseOptions.Complete: a concurrency <= 0 becomes 3
CompleteConcurrency(flag) == IF flag <= 0 THEN DefaultConcurrency ELSE flag

\* a goroutine started by eg.Go and not yet returned holds a slot of the errgroup
Active(j) == j.pc \in {"run", "lock", "read", "write"}
ActiveJobs == {i \in 1..batch.n : Active(batch.jobs[i])}
\* the goroutines inside handleParseFile
InHandleParseFile == {i \in 1..batch.n : batch.jobs[i].pc = "run"}

QueuedJob == [pc |-> "queued", starts |-> 0, failed |-> FALSE, tmp |-> <<>>]

\* Complete, then Run calls runParseBatch for a list of n files (n # 1):
\* errgroup.WithContext and eg.SetLimit(concurrency)
BatchStart(flag, n) ==
  /\ batch.stage = "none"
  /\ batch' = [stage |-> "loop", flag |-> flag, concurrency |-> CompleteConcurrency(flag),
               n |-> n, next |-> 1, jobs |-> [i \in 1..n |-> QueuedJob], mu |-> 0,
               errs |-> <<>>, cancelled |-> FALSE,
               ret |-> [nil |-> TRUE, count |-> 0, first |-> 0]]
  /\ UNCHANGED <<varsLib, job, flog>>

\* the caller cancels the command's context
BatchCancel ==
  /\ batch.stage \in {"loop", "wait"}
  /\ ~batch.cancelled
  /\ batch' = [batch EXCEPT !.cancelled = TRUE]
  /\ UNCHANGED <<varsLib, job, flog>>

\* an iteration of the loop over files: eg.Go blocks while the group is at its limit,
\* then starts the goroutine for the next file
BatchGo_NoLimit ==
  /\ batch.stage = "loop"
  /\ batch.next <= batch.n
  /\ batch' = [batch EXCEPT !.jobs[batch.next].pc = "run",
                            !.jobs[batch.next].starts = @ + 1,
                            !.next = @ + 1]
  /\ UNCHANGED <<varsLib, job, flog>>
BatchGo ==
  /\ batch.stage = "loop"
  /\ batch.next <= batch.n
  /\ (batch.concurrency > 0 => Cardinality(ActiveJobs) < batch.concurrency)
  /\ batch' = [batch EXCEPT !.jobs[batch.next].pc = "run",
                            !.jobs[batch.next].starts = @ + 1,
                            !.next = @ + 1]
  /\ UNCHANGED <<varsLib, job, flog>>

\* the loop is over: eg.Wait()
BatchLoopEnd ==
  /\ batch.stage = "loop"
  /\ batch.next > batch.n
  /\ batch' = [batch EXCEPT !.stage = "wait"]
  /\ UNCHANGED <<varsLib, job, flog>>

\* handleParseFile of goroutine i returns, with an error or without; with an error the
\* goroutine goes on to mu.Lock()
JobReturns(i, failed) ==
  /\ batch.stage \in {"loop", "wait"}
  /\ i \in 1..batch.n
  /\ batch.jobs[i].pc = "run"
  /\ batch' = [batch EXCEPT !.jobs[i].pc = IF failed THEN "lock" ELSE "done",
                            !.jobs[i].failed = failed]
  /\ UNCHANGED <<varsLib, job, flog>>

\* mu.Lock()
JobLock_NoMutex(i) ==
  /\ i \in 1..batch.n
  /\ batch.jobs[i].pc = "lock"
  /\ batch' = [batch EXCEPT !.jobs[i].pc = "read"]
  /\ UNCHANGED <<varsLib, job, flog>>
JobLock(i) ==
  /\ i \in 1..batch.n
  /\ batch.jobs[i].pc = "lock"
  /\ batch.mu = 0
  /\ batch' = [batch EXCEPT !.jobs[i].pc = "read", !.mu = i]
  /\ UNCHANGED <<varsLib, job, flog>>

\* errs = append(errs, err): the slice is read ...
JobReadErrs(i) ==
  /\ i \in 1..batch.n
  /\ batch.jobs[i].pc = "read"
  /\ batch' = [batch EXCEPT !.jobs[i].pc = "write", !.jobs[i].tmp = batch.errs]
  /\ UNCHANGED <<varsLib, job, flog>>

\* ... and the extended slice is stored; mu.Unlock(); the goroutine returns nil
JobWriteErrs(i) ==
  /\ i \in 1..batch.n
  /\ batch.jobs[i].pc = "write"
  /\ batch' = [batch EXCEPT !.jobs[i].pc = "done", !.jobs[i].tmp = <<>>,
                            !.errs = Append(batch.jobs[i].tmp, i),
                            !.mu = IF @ = i THEN 0 ELSE @]
  /\ UNCHANGED <<varsLib, job, flog>>

\* eg.Wait() returns once every goroutine has returned; no goroutine returns an error,
\* so its result is nil, and runParseBatch returns by len(errs)
BatchReturn ==
  /\ batch.stage = "wait"
  /\ ActiveJobs = {}
  /\ batch' = [batch EXCEPT !.stage = "returned",
                            !.ret = IF Len(batch.errs) > 0
                                    THEN [nil |-> FALSE, count |-> Len(batch.errs),
                                          first |-> batch.errs[1]]
                                    ELSE [nil |-> TRUE, count |-> 0, first |-> 0]]
  /\ UNCHANGED <<varsLib, job, flog>>

InitBatch == Init /\ callerDeadline = NoDeadline

NextBatch ==
  \/ \E flag \in ConcurrencyFlags, n \in 2..MaxFiles : BatchStart(flag, n)
  \/ BatchCancel
  \/ BatchGo
  \/ BatchLoopEnd
  \/ \E i \in 1..MaxFiles, failed \in BOOLEAN : JobReturns(i, failed)
  \/ \E i \in 1..MaxFiles : JobLock(i)
  \/ \E i \in 1..MaxFiles : JobReadErrs(i)
  \/ \E i \in 1..MaxFiles : JobWriteErrs(i)
  \/ BatchReturn

SpecBatch == InitBatch /\ [][NextBatch]_vars

(* ---- the parse command: handleParseFile and autoConvertAndDownload ---- *)

\* the calls of the client made by a job
RemoteSteps == {"PreUpload", "UploadToPresignedURL", "WaitForParsing", "ConvertParse",
                "WaitForConversion", "DownloadFileTo"}
\* the local steps that have an error return: reading the file, printing, saving the
\* parse result, parsing the conversion settings, creating the download file
LocalSteps == {"ReadFile", "print Preupload completed", "print Upload success",
               "print Submitted parse job", "print Parse success", "save parse result",
               "print Saved parse result",
               "parseConvertFormat", "parseFormulaMode", "print Convert requested",
               "print Conversion finished", "create download file",
               "print Downloaded converted file"}
\* the steps after which logFailure is called when they fail
LoggedSteps == RemoteSteps \cup {"ReadFile", "save parse result", "parseConvertFormat",
                                 "parseFormulaMode", "create download file"}

\* the statement that follows a step that returned without error
NextStep_IgnoresWait(step, wait, auto, save) ==
  CASE step = "ReadFile" -> "PreUpload"
    [] step = "PreUpload" -> "print Preupload completed"
    [] step = "print Preupload completed" -> "UploadToPresignedURL"
    [] step = "UploadToPresignedURL" -> "print Upload success"
    [] step = "print Upload success" -> "WaitForParsing"
    [] step = "print Submitted parse job" -> "return"
    [] step = "WaitForParsing" -> "print Parse success"
    [] step = "print Parse success" ->
         IF save THEN "save parse result" ELSE IF auto THEN "parseConvertFormat" ELSE "return"
    [] step = "save parse result" -> "print Saved parse result"
    [] step = "print Saved parse result" -> IF auto THEN "parseConvertFormat" ELSE "return"
    [] step = "parseConvertFormat" -> "parseFormulaMode"
    [] step = "parseFormulaMode" -> "ConvertParse"
    [] step = "ConvertParse" -> "print Convert requested"
    [] step = "print Convert requested" -> "WaitForConversion"
    [] step = "WaitForConversion" -> "print Conversion finished"
    [] step = "print Conversion finished" -> "create download file"
    [] step = "create download file" -> "DownloadFileTo"
    [] step = "DownloadFileTo" -> "print Downloaded converted file"
    [] step = "print Downloaded converted file" -> "return"
NextStep(step, wait, auto, save) ==
  CASE step = "ReadFile" -> "PreUpload"
    [] step = "PreUpload" -> "print Preupload completed"
    [] step = "print Preupload completed" -> "UploadToPresignedURL"
    [] step = "UploadToPresignedURL" -> "print Upload success"
    [] step = "print Upload success" -> IF wait THEN "WaitForParsing" ELSE "print Submitted parse job"
    [] step = "print Submitted parse job" -> "return"
    [] step = "WaitForParsing" -> "print Parse success"
    [] step = "print Parse success" ->
         IF save THEN "save parse result" ELSE IF auto THEN "parseConvertFormat" ELSE "return"
    [] step = "save parse result" -> "print Saved parse result"
    [] step = "print Saved parse result" -> IF auto THEN "parseConvertFormat" ELSE "return"
    [] step = "parseConvertFormat" -> "parseFormulaMode"
    [] step = "parseFormulaMode" -> "ConvertParse"
    [] step = "ConvertParse" -> "print Convert requested"
    [] step = "print Convert requested" -> "WaitForConversion"
    [] step = "WaitForConversion" -> "print Conversion finished"
    [] step = "print Conversion finished" -> "create download file"
    [] step = "create download file" -> "DownloadFileTo"
    [] step = "DownloadFileTo" -> "print Downloaded converted file"
    [] step = "print Downloaded converted file" -> "return"

\* the job after its current step returned: on to the next statement, or the error return
\* (after logFailure where the code calls it)
AfterStep_ContinuesOnError(j, ok) ==
  LET nx == NextStep(j.pc, j.wait, j.auto, j.save)
      f  == IF ok THEN j.failedAt ELSE j.pc
  IN  IF nx = "return"
      THEN [j EXCEPT !.stage = "returned", !.pc = "return", !.inflight = FALSE, !.failedAt = f,
                     !.ret = IF f = "" THEN "nil" ELSE "err",
                     !.completed = IF ok THEN Append(@, j.pc) ELSE @]
      ELSE [j EXCEPT !.pc = nx, !.inflight = FALSE, !.failedAt = f,
                     !.completed = IF ok THEN Append(@, j.pc) ELSE @]
AfterStep(j, ok) ==
  LET nx == NextStep(j.pc, j.wait, j.auto, j.save)
  IN  IF ~ok
      THEN [j EXCEPT !.stage = "returned", !.inflight = FALSE, !.failedAt = j.pc, !.ret = "err",
                     !.logged = IF j.pc \in LoggedSteps THEN @ + 1 ELSE @]
      ELSE IF nx = "return"
      THEN [j EXCEPT !.stage = "returned", !.pc = "return", !.inflight = FALSE,
                     !.completed = Append(@, j.pc)]
      ELSE [j EXCEPT !.pc = nx, !.inflight = FALSE, !.completed = Append(@, j.pc)]

\* handleParseFile is called with job.wait and job.auto.enabled; save says that an output
\* target is set and the parse result is present
JobStart(wait, auto, save) ==
  /\ job.stage = "none"
  /\ job' = [NoJob EXCEPT !.stage = "running", !.pc = "ReadFile", !.wait = wait, !.auto = auto,
                          !.save = save]
  /\ UNCHANGED <<varsLib, batch, flog>>

\* a local step runs and returns
JobLocal(ok) ==
  /\ job.stage = "running"
  /\ job.pc \in LocalSteps
  /\ job' = AfterStep(job, ok)
  /\ UNCHANGED <<varsLib, batch, flog>>

\* the job calls the client
JobCall ==
  /\ job.stage = "running"
  /\ job.pc \in RemoteSteps
  /\ ~job.inflight
  /\ job' = [job EXCEPT !.inflight = TRUE, !.started = Append(@, job.pc)]
  /\ UNCHANGED <<varsLib, batch, flog>>

\* the call of the client returns
JobCallReturns(ok) ==
  /\ job.stage = "running"
  /\ job.pc \in RemoteSteps
  /\ job.inflight
  /\ job' = AfterStep(job, ok)
  /\ UNCHANGED <<varsLib, batch, flog>>

InitJob == Init /\ callerDeadline = NoDeadline

NextJob ==
  \/ \E wait \in BOOLEAN, auto \in BOOLEAN, save \in BOOLEAN : JobStart(wait, auto, save)
  \/ \E ok \in BOOLEAN : JobLocal(ok)
  \/ JobCall
  \/ \E ok \in BOOLEAN : JobCallReturns(ok)

SpecJob == InitJob /\ [][NextJob]_vars

(* ---- the failure log: logFailure ---- *)

\* the values of --fail-log: none, a file in the working directory, a file in a directory
LogPaths == {"", "fail.log", "out/fail.log"}
\* filepath.Dir(path) is neither "" nor "."
HasDir(path) == path = "out/fail.log"
\* the steps between failureLogMu.Lock() and the deferred Unlock()
LockedSteps == {"mkdir", "open", "write1", "write2", "close", "unlock"}

\* the batch runs with one --fail-log value for all its jobs
LogStart(path) ==
  /\ flog.stage = "none"
  /\ flog' = [flog EXCEPT !.stage = "open", !.path = path]
  /\ UNCHANGED <<varsLib, batch, job>>

\* logFailure is called: an empty path returns nil, otherwise the line is built
LogCall(i) ==
  /\ flog.stage = "open"
  /\ flog.calls[i].pc = "idle"
  /\ flog' = [flog EXCEPT !.calls[i].pc = IF flog.path = "" THEN "returned" ELSE "lock"]
  /\ UNCHANGED <<varsLib, batch, job>>

\* failureLogMu.Lock()
LogLock_NoMutex(i) ==
  /\ flog.calls[i].pc = "lock"
  /\ flog' = [flog EXCEPT !.mu = i,
                          !.calls[i].pc = IF HasDir(flog.path) THEN "mkdir" ELSE "open"]
  /\ UNCHANGED <<varsLib, batch, job>>
LogLock(i) ==
  /\ flog.calls[i].pc = "lock"
  /\ flog.mu = 0
  /\ flog' = [flog EXCEPT !.mu = i,
                          !.calls[i].pc = IF HasDir(flog.path) THEN "mkdir" ELSE "open"]
  /\ UNCHANGED <<varsLib, batch, job>>

\* os.MkdirAll: a failure returns mkErr, the deferred Unlock runs
LogMkdir(i, ok) ==
  /\ flog.calls[i].pc = "mkdir"
  /\ flog' = IF ok THEN [flog EXCEPT !.calls[i].pc = "open"]
                    ELSE [flog EXCEPT !.calls[i] = [pc |-> "unlock", ret |-> "mkErr"]]
  /\ UNCHANGED <<varsLib, batch, job>>

\* os.OpenFile with O_CREATE|O_APPEND|O_WRONLY: a failure returns openErr
LogOpen(i, ok) ==
  /\ flog.calls[i].pc = "open"
  /\ flog' = IF ok THEN [flog EXCEPT !.calls[i].pc = "write1"]
                    ELSE [flog EXCEPT !.calls[i] = [pc |-> "unlock", ret |-> "openErr"]]
  /\ UNCHANGED <<varsLib, batch, job>>

\* f.WriteString(line) appends the line in as many as two writes; a failed write appends
\* nothing more and the call returns writeErr
LogWrite(i, ok) ==
  /\ flog.calls[i].pc \in {"write1", "write2"}
  /\ flog' = IF ok
             THEN [flog EXCEPT !.file = Append(@, [call |-> i,
                                                    part |-> IF flog.calls[i].pc = "write1" THEN 1 ELSE 2]),
                               !.calls[i].pc = IF flog.calls[i].pc = "write1" THEN "write2" ELSE "close"]
             ELSE [flog EXCEPT !.calls[i] = [pc |-> "close", ret |-> "writeErr"]]
  /\ UNCHANGED <<varsLib, batch, job>>

\* the deferred f.Close()
LogClose(i) ==
  /\ flog.calls[i].pc = "close"
  /\ flog' = [flog EXCEPT !.calls[i].pc = "unlock"]
  /\ UNCHANGED <<varsLib, batch, job>>

\* the deferred failureLogMu.Unlock(), and the return
LogUnlock(i) ==
  /\ flog.calls[i].pc = "unlock"
  /\ flog' = [flog EXCEPT !.mu = 0, !.calls[i].pc = "returned"]
  /\ UNCHANGED <<varsLib, batch, job>>

InitLog == Init /\ callerDeadline = NoDeadline

NextLog ==
  \/ \E path \in LogPaths : LogStart(path)
  \/ \E i \in 1..MaxCalls :
       \/ LogCall(i)
       \/ LogLock(i)
       \/ \E ok \in BOOLEAN : LogMkdir(i, ok)
       \/ \E ok \in BOOLEAN : LogOpen(i, ok)
       \/ \E ok \in BOOLEAN : LogWrite(i, ok)
       \/ LogClose(i)
       \/ LogUnlock(i)

SpecLog == InitLog /\ [][NextLog]_vars

TypeOK ==
  /\ pc \in {"idle", "fetch", "wait", "done"}
  /\ now \in 0..MaxTime
  /\ fetchCount \in 0..MaxFetches

(* ---- properties ---- *)

\* the fetches lo..hi have all returned an error the classifier reports as transient
TransientRun(lo, hi) == Len(hist) >= hi /\ \A i \in lo..hi : hist[i] = "transient"
Running == pc \in {"fetch", "wait"}
Fetched == Len(hist') = Len(hist) + 1

\* C1: for every N in 0..3, when the first N fetches returned a transient error and the
\* context is neither cancelled nor expired the call is still running, and when fetch N+1
\* then succeeds with done=true the call returns the result of fetch N+1 with a nil error
\* after exactly N+1 fetches.
C1_RetryThenSuccess ==
  \A N \in 0..3 :
    /\ (pc # "idle" /\ Len(hist) = N /\ TransientRun(1, N) /\ ctxErr = "nil") => Running
    /\ (TransientRun(1, N) /\ Len(hist) >= N + 1 /\ hist[N + 1] = "done")
         => /\ pc = "done"
            /\ result = N + 1
            /\ err = NoErr
            /\ fetchCount = N + 1
            /\ Len(hist) = N + 1

C1_Witness ==
  pc = "done" /\ hist = <<"transient", "transient", "transient", "done">> /\ result = 4

\* C2: when the first 4 fetches all return a transient error, the call returns the 4th
\* error with a nil result after exactly 4 fetches; no 5th fetch is issued.
C2_FourTransientErrors ==
  TransientRun(1, 4)
    => /\ pc = "done"
       /\ err = last.ferr
       /\ err.kind = "fetch"
       /\ result = Nil
       /\ fetchCount = 4
       /\ Len(hist) = 4

C2_Witness == pc = "done" /\ TransientRun(1, 4) /\ ~callerCancelled

\* C3: a fetch error the classifier reports as non-transient is returned at once with a
\* nil result, on any attempt and with any budget: no evaluate, no further fetch, no tick
\* wait, and the budget is not decremented.  On the first fetch the call has fetched once.
C3_PermanentErrorReturns ==
  /\ [][(Fetched /\ last'.ferr # NoErr /\ ~isTransientError(last'.ferr))
          => /\ pc' = "done"
             /\ err' = last'.ferr
             /\ result' = Nil
             /\ retriesLeft' = retriesLeft
             /\ UNCHANGED <<fetchCount, evalCount, waitCount>>]_vars
  /\ [](hist = <<"permanent">> => pc = "done" /\ fetchCount = 1)
  /\ [][pc = "done" => UNCHANGED <<fetchCount, evalCount, waitCount>>]_vars

C3_Witness ==
  /\ pc = "done" /\ Len(hist) = 3 /\ hist[3] = "permanent"
  /\ retriesLeft = 1 /\ err = last.ferr /\ err.ctx = "none"

\* C4: after a fetch that succeeds the budget is 3, whatever it was before; a run of
\* transient errors right after a successful fetch is retried 3 times (while the context
\* is neither cancelled nor expired) and its 4th error is returned.
C4_BudgetResetOnSuccess ==
  /\ (Len(hist) > 0 /\ hist[Len(hist)] \in {"pending", "done", "evalerr"}) => retriesLeft = 3
  /\ \A k \in 1..Len(hist) :
       hist[k] = "pending" =>
         /\ \A j \in 0..3 :
              (Len(hist) = k + j /\ TransientRun(k + 1, k + j) /\ ctxErr = "nil")
                => Running /\ retriesLeft = 3 - j
         /\ TransientRun(k + 1, k + 4)
              => pc = "done" /\ err = last.ferr /\ result = Nil /\ Len(hist) = k + 4

C4_Witness ==
  /\ pc = "done"
  /\ hist = <<"transient", "pending", "transient", "transient", "transient", "transient">>

\* C5: retriesLeft stays within 0..3; it decreases only by 1, on a transient fetch
\* error, when it is > 0; a transient fetch error at retriesLeft = 0 is returned.
C5_BudgetBounds ==
  /\ [](retriesLeft \in 0..3)
  /\ [][retriesLeft' < retriesLeft
          => /\ Fetched /\ isTransientError(last'.ferr)
             /\ retriesLeft > 0
             /\ retriesLeft' = retriesLeft - 1]_vars
  /\ [][(Fetched /\ retriesLeft = 0 /\ isTransientError(last'.ferr))
          => pc' = "done" /\ err' = last'.ferr /\ result' = Nil /\ retriesLeft' = 0]_vars

C5_Witness ==
  pc = "done" /\ retriesLeft = 0 /\ err.kind = "fetch" /\ isTransientError(err) /\ Len(hist) = 5

\* C6: a non-nil result is returned only when evaluate on that very result returned
\* done=true with a nil error, and then the error is nil; every other return has a nil
\* result and a non-nil error; a pending status is never the returned value.
C6_NoPendingResult ==
  /\ pc # "done" => result = Nil /\ err = NoErr
  /\ pc = "done" =>
       \/ /\ result # Nil /\ err = NoErr
          /\ result = Len(hist) /\ result = fetchCount
          /\ last.ferr = NoErr /\ last.done /\ last.everr = NoErr
       \/ result = Nil /\ err # NoErr

C6_Witness == pc = "done" /\ result = 3 /\ hist = <<"pending", "transient", "done">>

\* the causes of a return, read off what the call returned and what it last observed
ByEvalSuccess ==
  err = NoErr /\ result # Nil /\ last.ferr = NoErr /\ last.everr = NoErr /\ last.done
ByEvalError == err # NoErr /\ err = last.everr
ByFetchErrorBudgetExhausted == err # NoErr /\ err = last.ferr /\ retriesLeft = 0
ByContext ==
  \/ err.kind = "wait" /\ err.cause = ctxErr /\ ctxErr # "nil"
  \/ err.kind = "fetch" /\ err = last.ferr /\ err.ctx # "none"
ByPermanentFetchError == err # NoErr /\ err = last.ferr /\ ~isTransientError(last.ferr)

\* C7 as stated: every return is caused by evaluator success, an evaluator error, a fetch
\* failure with the retry budget exhausted, or cancellation/expiry of the context.
C7_FourCauses ==
  pc = "done" => ByEvalSuccess \/ ByEvalError \/ ByFetchErrorBudgetExhausted \/ ByContext

\* C7 amended: every return is caused by evaluator success, an evaluator error, a fetch
\* error the classifier reports as non-transient (whatever the budget), a transient fetch
\* error with the retry budget exhausted, or cancellation/expiry of the context.
C7_FiveCauses ==
  pc = "done" =>
    \/ ByEvalSuccess
    \/ ByEvalError
    \/ ByPermanentFetchError
    \/ ByFetchErrorBudgetExhausted /\ isTransientError(last.ferr)
    \/ ByContext

C7_Witness ==
  /\ pc = "done" /\ ByPermanentFetchError /\ err.ctx = "none" /\ retriesLeft = 3
  /\ ~ByEvalSuccess /\ ~ByEvalError /\ ~ByContext

\* C8: when evaluate returns a non-nil error the call returns that error with a nil
\* result in the same step, for done=true and done=false alike; no fetch, evaluate or
\* tick wait follows.
C8_EvalErrorReturns ==
  /\ [][(Fetched /\ last'.everr # NoErr)
          => /\ pc' = "done"
             /\ err' = last'.everr
             /\ result' = Nil
             /\ UNCHANGED <<fetchCount, waitCount>>]_vars
  /\ []((pc = "done" /\ last.everr # NoErr)
          => fetchCount = Len(hist) /\ evalCount = Len(SelectSeq(hist, LAMBDA c :
                 c \in {"pending", "done", "evalerr"})))

C8_Witness ==
  pc = "done" /\ last.everr # NoErr /\ last.done /\ err = last.everr /\ Len(hist) = 3

\* the deadline C9 expects the call to run under
C9_Expected ==
  IF callerDeadline.has THEN callerDeadline.at
  ELSE args.entry + (IF args.timeout <= 0 THEN 300 ELSE args.timeout)

\* C9: the call runs under the caller's deadline when there is one, earlier or later
\* than the timeout argument, and otherwise under entry time + timeout, a timeout <= 0
\* counting as 5 minutes; the context expires exactly when that deadline passes.
C9_DeadlineComposition ==
  pc # "idle" =>
    /\ ctxDeadline = [has |-> TRUE, at |-> C9_Expected]
    /\ ctxErr = "DeadlineExceeded" => now >= C9_Expected
    /\ now >= C9_Expected => ctxErr # "nil"
    /\ (err.kind = "wait" /\ err.cause = "DeadlineExceeded") => now >= C9_Expected

C9_Witness ==
  /\ pc = "done" /\ err.kind = "wait" /\ err.cause = "DeadlineExceeded"
  /\ callerDeadline.has /\ args.timeout > 0
  /\ callerDeadline.at > args.entry + args.timeout

\* C10: when every fetch succeeds with done=false and the caller's context has no
\* deadline and is not cancelled, at most one fetch is issued after the deadline of
\* entry time + timeout has passed.
C10_OneLateFetch ==
  (/\ pc # "idle" /\ ~callerDeadline.has /\ ~callerCancelled
   /\ \A i \in 1..Len(hist) : hist[i] = "pending")
    => lateFetches <= 1

\* C11: when the caller cancels while the call is blocked in a tick wait (no tick held,
\* context live), the call's only step is to return from that wait with the cancellation
\* error and a nil result; no fetch and no further wait is started, wherever the next
\* tick was due.
C11_CancelInTickWait ==
  /\ [](cancelSnap.blocked
         => /\ pc \in {"wait", "done"}
            /\ fetchCount = cancelSnap.fetches
            /\ waitCount = cancelSnap.waits
            /\ pc = "done" => err = WaitError(args.operation, "Canceled") /\ result = Nil)
  /\ [][(cancelSnap.blocked /\ pc = "wait") => pc' = "done"]_vars

C11_Witness ==
  /\ cancelSnap.blocked /\ pc = "done" /\ err.kind = "wait" /\ err.cause = "Canceled"
  /\ Len(hist) = 2 /\ ticker.next = now + 1

\* C12 as stated: a fetch error that is not followed by another fetch is the error the
\* call returns.
C12_FetchErrorNeverDropped ==
  (pc = "done" /\ last.ferr # NoErr) => err = last.ferr

\* C12 amended: a fetch error is returned as the call's error, or followed by a further
\* fetch, or, when it is a transient error being retried and the context is cancelled or
\* expires in the tick wait before the retry, replaced by that wait's cancellation error.
C12_FetchErrorReturnedRetriedOrCancelled ==
  /\ (pc = "done" /\ last.ferr # NoErr)
       => \/ err = last.ferr
          \/ /\ err = WaitError(args.operation, ctxErr) /\ ctxErr # "nil"
             /\ isTransientError(last.ferr)
             /\ waitCount = Len(hist) /\ fetchCount = Len(hist)
  /\ (pc # "done" /\ Len(hist) > 0 /\ last.ferr # NoErr)
       => pc \in {"wait", "fetch"} /\ isTransientError(last.ferr)

C12_Witness ==
  pc = "done" /\ last.ferr # NoErr /\ err.kind = "wait" /\ Len(hist) = 2

\* C14: at most one fetch of the call is in flight; a fetch is issued only when every
\* earlier fetch has returned and, if it succeeded, its result has been evaluated.
C14_SequentialFetches ==
  /\ [](/\ fetchCount - Len(hist) \in {0, 1}
        /\ (fetchCount - Len(hist) = 1) <=> (pc = "fetch"))
  /\ [][fetchCount' # fetchCount
          => /\ fetchCount' = fetchCount + 1
             /\ fetchCount = Len(hist)
             /\ pc # "fetch"
             /\ (Len(hist) > 0 /\ last.ferr = NoErr)
                  => evalLog # <<>> /\ evalLog[Len(evalLog)] = Len(hist)]_vars

C14_Witness == pc = "fetch" /\ fetchCount = 4 /\ Len(hist) = 3 /\ ticker.pending

\* C16: a fetch error that is or wraps context.Canceled or context.DeadlineExceeded is
\* classified non-transient even when it reports Timeout() or Temporary(); the call
\* returns it at once and retriesLeft is not decremented.
C16_ContextErrorsNotRetried ==
  [][(Fetched /\ last'.ferr # NoErr /\ last'.ferr.ctx \in {"Canceled", "DeadlineExceeded"})
      => /\ hist'[Len(hist')] = "permanent"
         /\ pc' = "done"
         /\ err' = last'.ferr
         /\ result' = Nil
         /\ retriesLeft' = retriesLeft
         /\ UNCHANGED <<fetchCount, waitCount>>]_vars

C16_Witness ==
  /\ pc = "done" /\ err.kind = "fetch" /\ err = last.ferr
  /\ err.ctx = "DeadlineExceeded" /\ err.net /\ err.timeout /\ err.temporary
  /\ retriesLeft = 2

\* the decision table of C17
C17_Table(e) ==
  /\ e # NoErr
  /\ e.ctx = "none"
  /\ \/ e.net /\ (e.timeout \/ e.temporary)
     \/ ~e.net /\ e.hasTemporary /\ e.temporary

\* C17: the classifier answers true for the error of the last fetch exactly when the
\* decision table does (nil when the fetch succeeded), and the fetch was classed so.
C17_DecisionTable ==
  Len(hist) > 0 =>
    /\ isTransientError(last.ferr) <=> C17_Table(last.ferr)
    /\ (hist[Len(hist)] = "transient") <=> C17_Table(last.ferr)
    /\ (hist[Len(hist)] = "permanent") <=> (last.ferr # NoErr /\ ~C17_Table(last.ferr))

C17_Witness ==
  /\ pc = "done" /\ err = last.ferr /\ err.kind = "fetch" /\ err.ctx = "none"
  /\ ~err.net /\ err.timeout /\ retriesLeft = 3 /\ hist = <<"permanent">>

C18_Succeeded == {i \in 1..Len(hist) : hist[i] \in {"pending", "done", "evalerr"}}

C19_Expected == IF args.pollInterval <= 0 THEN 2 ELSE args.pollInterval

\* C19: a pollInterval <= 0 is replaced by 2 seconds and a positive one is kept: the
\* ticker of the call ticks at entry + k * that interval, for every tick wait.
C19_DefaultInterval ==
  pc \in {"fetch", "wait"} =>
    /\ pollInterval = C19_Expected
    /\ ticker.running
    /\ ticker.next > now /\ ticker.next <= now + C19_Expected
    /\ (ticker.next - args.entry) % C19_Expected = 0

C19_Witness ==
  /\ pc = "wait" /\ args.pollInterval = -1 /\ waitCount = 2 /\ ~ticker.pending
  /\ ticker.next = args.entry + 4

\* the label C13 expects in the error
C13_Label ==
  CASE call.api = "WaitForParsing" -> "parsing"
    [] call.api = "WaitForConversion" -> "conversion"
    [] call.api = "WaitForImageLayout" -> "image layout"

\* C13: the error returned from a tick wait that ended by cancellation or expiry carries
\* the operation label of the method and the context's cause, Canceled when the caller
\* cancelled first and DeadlineExceeded when the deadline passed first; the result is nil.
C13_WaitErrorLabelAndCause ==
  (pc = "done" /\ err.kind = "wait") =>
    /\ result = Nil
    /\ err.operation = C13_Label
    /\ err.cause \in {"Canceled", "DeadlineExceeded"}
    /\ err.cause = ctxErr
    /\ err.cause = "Canceled" => callerCancelled
    /\ err.cause = "DeadlineExceeded" => Expired(ctxDeadline, now)
    /\ ~callerCancelled => err.cause = "DeadlineExceeded"
    /\ ~Expired(ctxDeadline, now) => err.cause = "Canceled"

C13_Witness ==
  /\ pc = "done" /\ err.kind = "wait" /\ err.cause = "DeadlineExceeded"
  /\ err.operation = "image layout" /\ ~callerCancelled /\ now = 2

\* C20: a call of WaitForParsing, WaitForConversion or WaitForImageLayout with an empty
\* uid has returned ErrEmptyUID with a nil result without entering the poller: no fetch,
\* no evaluate, no tick wait, no ticker and no timeout context; a non-empty uid enters it.
C20_EmptyUIDRejected ==
  /\ (call.api \in {"WaitForParsing", "WaitForConversion", "WaitForImageLayout"} /\ call.uid = "")
       => /\ pc = "done"
          /\ err = [kind |-> "ErrEmptyUID"]
          /\ result = Nil
          /\ fetchCount = 0 /\ evalCount = 0 /\ waitCount = 0
          /\ ticker = StoppedTicker
          /\ childCtx = "none" /\ ctxDeadline = NoDeadline
  /\ (call.api # "none" /\ call.uid # "") => fetchCount >= 1

C20_Witness ==
  /\ call = [api |-> "WaitForConversion", uid |-> ""]
  /\ pc = "done" /\ err = ErrEmptyUID /\ fetchCount = 0 /\ callerCancelled

\* C15: with a second call running concurrently, every step either leaves the first
\* call's state (retry budget, ticker, context, counters, outcome) unchanged or is a step
\* the first call takes when run alone on the same inputs; every step that changes both
\* calls is the passing of time, and a step of one call changes nothing of the other.
C15_CallsIndependent ==
  /\ Init
  /\ [][Next]_varsA
  /\ [][(b' # b /\ now' = now) => UNCHANGED varsA]_vars
  /\ [][(b' # b /\ now' # now)
          => UNCHANGED <<pc, retriesLeft, result, err, fetchCount, hist, callerCancelled>>]_vars

C15_Witness ==
  /\ pc = "done" /\ retriesLeft = 0 /\ err.kind = "fetch" /\ Len(hist) = 4
  /\ b.pc = "done" /\ b.retriesLeft = 3 /\ b.result = 2 /\ b.err = NoErr

\* C24: between two consecutive fetches of one call there is exactly one completed tick
\* wait, after a transient fetch error as after a pending evaluation: every fetch but the
\* first is issued by a wait that consumes a tick, the number of waits entered is the
\* number of fetches returned and not ended, and the ticks come from the one ticker at
\* the normalised interval, on the schedule fixed at entry (no backoff).
C24_OneTickBetweenFetches ==
  /\ [](/\ pc = "fetch" => waitCount = fetchCount - 1
        /\ pc = "wait" => waitCount = fetchCount
        /\ (pc \in {"fetch", "wait"})
             => /\ ticker.running
                /\ (ticker.next - args.entry) % pollInterval = 0
                /\ pollInterval = (IF args.pollInterval <= 0 THEN 2 ELSE args.pollInterval))
  /\ [][(fetchCount' = fetchCount + 1 /\ fetchCount >= 1)
          => /\ pc = "wait" /\ ticker.pending /\ ~ticker'.pending
             /\ ticker'.next = ticker.next
             /\ hist[Len(hist)] \in {"transient", "pending"}]_vars
  /\ [][pc # "idle" => pollInterval' = pollInterval]_vars

C24_Witness ==
  /\ pc = "fetch" /\ fetchCount = 4 /\ waitCount = 3
  /\ hist = <<"transient", "pending", "transient">>

\* C28: a call of waitWithPolling issues its first fetch in the step that enters it, before
\* any tick wait and whatever the state of the caller's context (live, cancelled or
\* expired); it cannot return before that fetch has returned, so every call performs at
\* least one fetch.
C28_FirstFetchImmediate ==
  /\ [][(pc = "idle" /\ pc' # "idle")
          => pc' = "fetch" /\ fetchCount' = 1 /\ waitCount' = 0 /\ now' = now]_vars
  /\ [](pc # "idle" => fetchCount >= 1)
  /\ [](pc = "done" => Len(hist) >= 1)
  /\ [](pc = "wait" => Len(hist) >= 1)

C28_Witness ==
  /\ pc = "done" /\ fetchCount = 1 /\ Len(hist) = 1
  /\ callerDeadline.has /\ args.entry >= callerDeadline.at /\ callerCancelled
  /\ lateFetches = 1

\* C29: when fetch itself observes the end of the context and returns an error that is or
\* wraps context.Canceled or context.DeadlineExceeded, the call returns that error as it is,
\* without the "waiting for <operation> cancelled" wrapper; an error with that wrapper is
\* only ever returned by a tick wait that saw the context done.
C29_FetchCtxErrorUnwrapped ==
  /\ [][(pc = "fetch" /\ Fetched /\ last'.ferr # NoErr /\ last'.ferr.ctx # "none")
          => /\ pc' = "done"
             /\ err' = last'.ferr
             /\ err'.kind = "fetch"
             /\ result' = Nil]_vars
  /\ [][(err' # err /\ err'.kind = "wait")
          => /\ pc = "wait" /\ CtxDone /\ ~Fetched
             /\ err' = [kind |-> "wait", operation |-> args.operation, cause |-> ctxErr]]_vars
  /\ []((pc = "done" /\ err.kind = "wait") => waitCount >= 1)

C29_Witness ==
  /\ pc = "done" /\ err.kind = "fetch" /\ err.ctx = "DeadlineExceeded" /\ err.timeout
  /\ ctxErr = "DeadlineExceeded" /\ retriesLeft = 3 /\ Len(hist) = 2 /\ waitCount = 1

\* the status responses a fetcher may get for the method that is running
StatusBodies(api) == {[code |-> c, data |-> d] : c \in {"", "success"}, d \in PayloadsOf(api)}
PointerApis == {"WaitForParsing", "WaitForImageLayout"}
FetchedResult == Fetched /\ last'.ferr = NoErr /\ call.uid # ""

\* C21: the evaluator of WaitForParsing and WaitForImageLayout maps status "failed" to an
\* error holding the detail ("unknown error" for an empty detail), status "success" to
\* done, and a missing payload or any other status to pending; it never answers done
\* together with an error.  A wait that fetches a failed status returns that error after
\* that fetch and fetches no more.
C21_StatusEvaluator ==
  /\ [](\A api \in PointerApis : \A body \in StatusBodies(api) :
          LET r == Evaluate(api, body)
          IN  /\ (body.data.present /\ body.data.status = "failed")
                   => /\ ~r.done /\ r.err # NoErr
                      /\ r.err.detail = (IF body.data.detail = "" THEN "unknown error"
                                                                 ELSE body.data.detail)
              /\ (body.data.present /\ body.data.status = "success") => r = [done |-> TRUE, err |-> NoErr]
              /\ (~body.data.present \/ body.data.status \notin {"success", "failed"})
                   => r = [done |-> FALSE, err |-> NoErr]
              /\ ~(r.done /\ r.err # NoErr))
  /\ [][(FetchedResult /\ call.api \in PointerApis
           /\ last'.body.data.present /\ last'.body.data.status = "failed")
          => /\ pc' = "done" /\ result' = Nil
             /\ err' = last'.everr /\ err'.kind = "eval"
             /\ err'.detail = (IF last'.body.data.detail = "" THEN "unknown error"
                                                                ELSE last'.body.data.detail)
             /\ fetchCount' = fetchCount]_vars
  /\ [][(FetchedResult /\ call.api \in PointerApis
           /\ (~last'.body.data.present \/ last'.body.data.status = "processing"))
          => pc' = "wait" /\ ~last'.done /\ last'.everr = NoErr /\ err' = NoErr]_vars
  /\ [][pc = "done" => fetchCount' = fetchCount /\ pc' = "done"]_vars
  /\ [](~(last.done /\ last.everr # NoErr))

C21_Witness ==
  /\ call.api = "WaitForParsing" /\ pc = "done" /\ fetchCount = 1
  /\ err.kind = "eval" /\ err.detail = "bad formula" /\ last.body.data.detail = "bad formula"

\* C25: the evaluator of WaitForConversion treats "success" with an empty download URL as
\* a terminal error, "success" with a URL as done, "failed" as a terminal error and every
\* other status as pending, so a conversion wait that returns without error returns a
\* result of status "success" with a non-empty URL; the evaluators of WaitForParsing and
\* WaitForImageLayout keep polling on a result without payload.
C25_ConversionEvaluator ==
  /\ [](\A body \in StatusBodies("WaitForConversion") :
          LET r == Evaluate("WaitForConversion", body)
          IN  /\ (body.data.status = "success" /\ body.data.url = "") => ~r.done /\ r.err # NoErr
              /\ (body.data.status = "success" /\ body.data.url # "") => r = [done |-> TRUE, err |-> NoErr]
              /\ body.data.status = "failed" => ~r.done /\ r.err # NoErr
              /\ body.data.status \notin {"success", "failed"} => r = [done |-> FALSE, err |-> NoErr])
  /\ []((pc = "done" /\ err = NoErr /\ call.api = "WaitForConversion")
          => /\ result = fetchCount
             /\ last.body.data.status = "success" /\ last.body.data.url # "")
  /\ [][(FetchedResult /\ call.api = "WaitForConversion"
           /\ last'.body.data.status = "success" /\ last'.body.data.url = "")
          => pc' = "done" /\ err' = last'.everr /\ err'.kind = "eval" /\ result' = Nil]_vars
  /\ [][(FetchedResult /\ call.api \in PointerApis /\ ~last'.body.data.present)
          => pc' = "wait" /\ err' = NoErr]_vars

C25_Witness ==
  /\ call.api = "WaitForConversion" /\ pc = "done" /\ fetchCount = 2
  /\ err.kind = "eval" /\ err.text = "conversion succeeded but no download URL provided"
  /\ last.body.data.status = "success" /\ last.body.data.url = ""

\* C26: in the three wait methods a status fetch answered with a non-2xx HTTP status, or
\* with an API code other than "" and "success", fails with a permanent error: the wait
\* returns that error after that fetch, the retry budget untouched and no further fetch
\* or wait made; a 2xx response whose API code is "" is a success whose result goes to
\* the evaluator.
C26_StatusErrorsPermanent ==
  /\ [](\A http \in HttpStatuses, code \in ApiCodes, api \in Apis : \A data \in PayloadsOf(api) :
          LET h == [http |-> http, code |-> code, data |-> data]
              r == GetStatus(h)
          IN  /\ (http < 200 \/ http > 299 \/ code \notin {"", "success"})
                   => /\ r.err # NoErr
                      /\ ~isTransientError(r.err)
                      /\ r.err.origin \in {"status", "code"}
              /\ (http >= 200 /\ http <= 299 /\ code = "")
                   => r.err = NoErr /\ r.result = [code |-> "", data |-> data])
  /\ [][(Fetched /\ last'.ferr # NoErr /\ "origin" \in DOMAIN last'.ferr)
          => /\ pc' = "done" /\ result' = Nil
             /\ err' = last'.ferr
             /\ retriesLeft' = retriesLeft
             /\ fetchCount' = fetchCount /\ waitCount' = waitCount
             /\ evalCount' = evalCount]_vars
  /\ [][(FetchedResult /\ last'.body.code = "")
          => /\ evalCount' = evalCount + 1
             /\ last'.done = Evaluate(call.api, last'.body).done
             /\ last'.everr = Evaluate(call.api, last'.body).err]_vars
  /\ []((pc = "done" /\ err.kind = "fetch" /\ "origin" \in DOMAIN err)
          => hist[Len(hist)] = "permanent")

C26_Witness ==
  /\ pc = "done" /\ err.kind = "fetch" /\ err.ctx = "none" /\ ~err.net
  /\ "origin" \in DOMAIN err /\ err.origin = "code" /\ err.code = "parse_error"
  /\ hist = <<"transient", "permanent">> /\ retriesLeft = 2 /\ fetchCount = 2

\* the branch of handleParseFile taken when WaitForParsing returned no error and a status
\* whose Data is nil
handleParseFile_NilData ==
  pc = "done" /\ call.api = "WaitForParsing" /\ err = NoErr /\ ~last.body.data.present

\* C30: a WaitForParsing that returns without error returns the result of its last fetch,
\* whose data payload is present and whose status is "success"; handleParseFile's branch
\* for a finished parse without data is never taken.
C30_ParsingResultHasData ==
  /\ []((pc = "done" /\ call.api = "WaitForParsing" /\ err = NoErr)
          => /\ result = fetchCount /\ last.ferr = NoErr
             /\ last.body.data.present /\ last.body.data.status = "success")
  /\ [](~handleParseFile_NilData)

C30_Witness ==
  /\ pc = "done" /\ call.api = "WaitForParsing" /\ err = NoErr /\ result = 3
  /\ last.body.data.present /\ last.body.data.status = "success"
  /\ hist = <<"pending", "transient", "done">>

\* the options of one name among those applied, and the last of them
OptsNamed(name) == {i \in 1..Len(client.opts) : client.opts[i].name = name}
LastNamed(name) == CHOOSE i \in OptsNamed(name) : \A j \in OptsNamed(name) : j <= i

\* C22: a client built by NewClient(apiKey) with no options carries the header
\* Authorization: "Bearer " + apiKey on its API client, and its API requests (PreUpload,
\* GetStatus, ConvertParse, GetConvertResult) are sent with it.
C22_QuickStartAuthorized ==
  (client.stage = "built" /\ client.opts = <<>>)
    => /\ client.restyClient.auth = "Bearer " \o client.newKey
       /\ client.req.api \in {"PreUpload", "GetStatus", "ConvertParse", "GetConvertResult"}
            => client.req.auth = "Bearer " \o client.newKey

\* C23: a client built with the option WithAPIKey(k), at any position among the options,
\* carries Authorization: "Bearer " + k on both its API client and its transfer client.
C23_KeySharedWithBothClients ==
  (client.stage = "built" /\ OptsNamed("WithAPIKey") # {})
    => /\ client.restyClient.auth = "Bearer " \o client.opts[LastNamed("WithAPIKey")].arg
       /\ client.transferClient.auth = "Bearer " \o client.opts[LastNamed("WithAPIKey")].arg

\* C27: whatever options NewClient is given, the processing timeout of the client is
\* positive; WithProcessingTimeout(t) and WithTimeout(t) with t <= 0 change neither the
\* processing timeout nor the HTTP timeout, and without a positive WithProcessingTimeout
\* the processing timeout is 5 minutes.
C27_ProcessingTimeoutPositive ==
  /\ [](client.stage \in {"opts", "built"} => client.processingTimeout > 0)
  /\ [][(client.stage = "opts" /\ Len(client'.opts) = Len(client.opts) + 1)
          => LET o == client'.opts[Len(client'.opts)]
             IN  /\ (o.name \in {"WithTimeout", "WithProcessingTimeout"} /\ o.arg <= 0)
                      => /\ client'.processingTimeout = client.processingTimeout
                         /\ client'.restyClient = client.restyClient
                         /\ client'.transferClient = client.transferClient
                 /\ o.name = "WithTimeout" => client'.processingTimeout = client.processingTimeout
                 /\ (o.name = "WithProcessingTimeout" /\ o.arg > 0) => client'.processingTimeout = o.arg]_vars
  /\ []((/\ client.stage = "built"
          /\ \A i \in OptsNamed("WithProcessingTimeout") : client.opts[i].arg <= 0)
          => client.processingTimeout = 300)

C27_Witness ==
  /\ client.stage = "built" /\ client.processingTimeout = 7
  /\ client.opts = <<[name |-> "WithProcessingTimeout", arg |-> 7],
                     [name |-> "WithProcessingTimeout", arg |-> 0],
                     [name |-> "WithTimeout", arg |-> -1]>>

\* C31: whenever a call of waitWithPolling has returned, its ticker is stopped and the
\* timeout context it created is cancelled; the caller's context is not touched by the
\* call: when it had a deadline no child context exists (the cancel function does
\* nothing), otherwise only the derived child is cancelled, and the caller's context is
\* cancelled by the caller alone.
C31_ReturnReleasesTickerAndChild ==
  /\ [](pc = "done" => ~ticker.running /\ childCtx # "live")
  /\ [](pc \in {"fetch", "wait"} => ticker.running)
  /\ [](pc # "idle" => (childCtx = "none") = callerDeadline.has)
  /\ []((pc = "done" /\ ~callerDeadline.has) => childCtx = "cancelled")
  /\ []((pc \in {"fetch", "wait"} /\ ~callerDeadline.has) => childCtx = "live")
  /\ [][callerDeadline' = callerDeadline]_vars
  /\ [][(pc' # pc \/ fetchCount' # fetchCount) => callerCancelled' = callerCancelled]_vars

C31_Witness ==
  /\ pc = "done" /\ childCtx = "cancelled" /\ ~callerCancelled /\ ~callerDeadline.has
  /\ ~ticker.running /\ ticker.pending /\ result = 2 /\ err = NoErr

\* C37: the ticker is started in the step that enters the call, before the first fetch,
\* with its first tick one interval later.  Its channel holds at most one tick: a tick
\* that fires while a fetch is in flight is kept until a tick wait takes it, so the wait
\* after that fetch ends without time passing and the next fetch is issued at once; a
\* further tick that fires while one is held is dropped, so the fetch issued by that wait
\* leaves no tick behind and the one after it has to wait for a tick still to come.
C37_TickerHoldsOneTick ==
  /\ [][(pc = "idle" /\ pc' # "idle")
          => /\ pc' = "fetch" /\ ticker'.running /\ ~ticker'.pending
             /\ ticker'.next = now + (IF args'.pollInterval <= 0 THEN 2 ELSE args'.pollInterval)]_vars
  /\ [](ticker.running => ticker.next > now /\ ticker.next <= now + pollInterval)
  /\ [][(pc = "fetch" /\ pc' = "fetch" /\ now' = ticker.next)
          => ticker'.pending /\ ticker'.next = ticker.next + pollInterval]_vars
  /\ [][(ticker.pending /\ fetchCount' = fetchCount /\ pc' # "done") => ticker'.pending]_vars
  /\ [][(pc = "wait" /\ ticker.pending)
          => /\ now' = now
             /\ pc' # pc => (pc' = "fetch" \/ (pc' = "done" /\ ctxErr # "nil"))]_vars
  /\ [][(fetchCount' = fetchCount + 1 /\ fetchCount >= 1)
          => ticker.pending /\ ~ticker'.pending /\ ticker'.next > now' /\ now' = now]_vars

C37_Witness ==
  /\ pc = "fetch" /\ fetchCount = 2 /\ Len(hist) = 1 /\ pollInterval = 1
  /\ now = args.entry + 2 /\ ~ticker.pending /\ ticker.next = now + 1

\* the options that take effect: a positive WithProcessingTimeout, a non-nil WithTransferClient
PositivePT == {i \in OptsNamed("WithProcessingTimeout") : client.opts[i].arg > 0}
GivenTransfer == {i \in OptsNamed("WithTransferClient") : client.opts[i].arg # "nil"}
MaxOf(S) == CHOOSE i \in S : \A j \in S : j <= i

\* C36: the timeout of the transfer client of a built client depends on the order of the
\* options: with a positive WithProcessingTimeout(t) and no transfer client given, the
\* transfer client is created with timeout t; a transfer client given before
\* WithProcessingTimeout(t) has its timeout overwritten with t; a transfer client given
\* after it keeps its own timeout, while the processing timeout is t.
C36_TransferTimeoutByOrder ==
  client.stage = "built" =>
    /\ (GivenTransfer = {} /\ PositivePT # {})
         => /\ client.transferClient.origin = "transfer"
            /\ client.transferClient.timeout = client.opts[MaxOf(PositivePT)].arg
    /\ (GivenTransfer # {} /\ PositivePT # {} /\ MaxOf(GivenTransfer) < MaxOf(PositivePT))
         => /\ client.transferClient.origin = "custom"
            /\ client.transferClient.timeout = client.opts[MaxOf(PositivePT)].arg
    /\ (GivenTransfer # {} /\ PositivePT # {} /\ MaxOf(GivenTransfer) > MaxOf(PositivePT))
         => /\ client.transferClient.origin = "custom"
            /\ client.transferClient.timeout = 0
            /\ client.processingTimeout = client.opts[MaxOf(PositivePT)].arg

C36_Witness ==
  /\ client.stage = "built" /\ client.processingTimeout = 7
  /\ client.transferClient.origin = "custom" /\ client.transferClient.timeout = 0
  /\ client.opts = <<[name |-> "WithProcessingTimeout", arg |-> 7],
                     [name |-> "WithTransferClient", arg |-> "custom"]>>

FailedJobs == {i \in 1..batch.n : batch.jobs[i].failed}

\* C32: a --concurrency value <= 0 is replaced by 3 before the batch starts; at no time
\* are more than `concurrency` handleParseFile jobs running, and every input file is
\* handled by exactly one job.
C32_ConcurrencyBounded ==
  /\ [](batch.stage # "none"
         => /\ batch.concurrency = (IF batch.flag <= 0 THEN 3 ELSE batch.flag)
            /\ Cardinality(InHandleParseFile) <= batch.concurrency
            /\ Cardinality(ActiveJobs) <= batch.concurrency
            /\ \A i \in 1..batch.n :
                 /\ batch.jobs[i].starts <= 1
                 /\ batch.jobs[i].starts = (IF i < batch.next THEN 1 ELSE 0)
                 /\ batch.jobs[i].pc = "queued" <=> batch.jobs[i].starts = 0)
  /\ [](batch.stage \in {"wait", "returned"}
         => \A i \in 1..batch.n : batch.jobs[i].starts = 1)

C32_Witness ==
  /\ batch.stage = "loop" /\ batch.flag = 0 /\ batch.n = 4 /\ batch.next = 4
  /\ Cardinality(InHandleParseFile) = 3 /\ batch.jobs[4].pc = "queued"

\* C33: the failure of a job cancels nothing and skips nothing: every file of the list is
\* started, failures or not; runParseBatch returns only when every job has finished; it
\* returns nil exactly when no job failed, and otherwise reports as many errors as jobs
\* failed, every failed job being in errs once, whatever the interleaving of the appends.
C33_FailuresIndependent ==
  /\ [](batch.stage = "returned"
         => /\ \A i \in 1..batch.n : batch.jobs[i].pc = "done" /\ batch.jobs[i].starts = 1
            /\ batch.ret.nil <=> FailedJobs = {}
            /\ ~batch.ret.nil
                 => /\ batch.ret.count = Cardinality(FailedJobs)
                    /\ batch.ret.first \in FailedJobs
            /\ Len(batch.errs) = Cardinality(FailedJobs)
            /\ {batch.errs[k] : k \in 1..Len(batch.errs)} = FailedJobs)
  /\ [][(batch.stage # "none" /\ Cardinality(FailedJobs) # 0)
          => /\ batch'.cancelled = batch.cancelled \/ batch'.jobs = batch.jobs
             /\ batch'.next >= batch.next
             /\ \A i \in 1..batch.n :
                  batch.jobs[i].pc = "run" => batch'.jobs[i].pc \in {"run", "lock", "done"}]_vars
  /\ [][(batch.stage = "loop" /\ batch'.stage = "wait") => batch.next = batch.n + 1]_vars

C33_Witness ==
  /\ batch.stage = "returned" /\ batch.n = 3 /\ ~batch.cancelled
  /\ FailedJobs = {1, 3} /\ batch.errs = <<3, 1>>
  /\ batch.ret = [nil |-> FALSE, count |-> 2, first |-> 3]

\* the order of the remote steps of a job
RemoteOrder == <<"PreUpload", "UploadToPresignedURL", "WaitForParsing", "ConvertParse",
                 "WaitForConversion", "DownloadFileTo">>

\* C34: a job starts its remote steps in the order PreUpload, UploadToPresignedURL,
\* WaitForParsing, ConvertParse, WaitForConversion, DownloadFileTo; a step is started only
\* when every step before it has returned without error; the first step that fails ends
\* the job and nothing is started after it; with wait=false nothing is started after
\* UploadToPresignedURL.
C34_RemoteStepsInOrder ==
  /\ [](/\ Len(job.started) <= 6
        /\ \A k \in 1..Len(job.started) : job.started[k] = RemoteOrder[k])
  /\ [][job'.started # job.started
          => /\ job.stage = "running" /\ job.failedAt = "" /\ ~job.inflight
             /\ Len(job'.started) = Len(job.started) + 1
             /\ \A k \in 1..Len(job.started) :
                  \E m \in 1..Len(job.completed) : job.completed[m] = job.started[k]]_vars
  /\ [][(job.failedAt # "" \/ job.stage = "returned")
          => job'.started = job.started /\ job'.stage = "returned"]_vars
  /\ [](job.failedAt # "" => job.stage = "returned" /\ job.ret = "err")
  /\ []((job.stage # "none" /\ ~job.wait) => Len(job.started) <= 2)
  /\ []((job.stage # "none" /\ ~job.auto) => Len(job.started) <= 3)

C34_Witness ==
  /\ job.stage = "returned" /\ job.ret = "nil" /\ job.wait /\ job.auto
  /\ job.started = <<"PreUpload", "UploadToPresignedURL", "WaitForParsing", "ConvertParse",
                     "WaitForConversion", "DownloadFileTo">>

\* the parts of the line of call i in the failure log, in file order
PartsOf(i) == SelectSeq(flog.file, LAMBDA c : c.call = i)
\* the positions of the file that hold a part of the line of call i
PositionsOf(i) == {k \in 1..Len(flog.file) : flog.file[k].call = i}
\* call i appended one whole line
WholeLine(i) ==
  /\ Len(PartsOf(i)) = 2
  /\ PartsOf(i)[1].part = 1
  /\ PartsOf(i)[2].part = 2
\* the calls that are between Lock() and Unlock()
InLocked == {i \in 1..MaxCalls : flog.calls[i].pc \in LockedSteps}
\* what the calls appended is never interleaved: the positions of a call are adjacent
NoInterleaving ==
  \A i \in 1..MaxCalls : \A k1 \in PositionsOf(i), k2 \in PositionsOf(i) :
    \A k \in k1..k2 : flog.file[k].call = i

\* C35 as stated: the calls are mutually exclusive between Lock and Unlock, every call that
\* returned with a non-empty path appended exactly one whole line, lines never interleave,
\* and a call with an empty path writes nothing and returns nil.
C35_EveryCallAppendsOneLine ==
  /\ Cardinality(InLocked) <= 1
  /\ NoInterleaving
  /\ \A i \in 1..MaxCalls :
       flog.calls[i].pc = "returned" =>
         IF flog.path = "" THEN flog.calls[i].ret = "nil" /\ PartsOf(i) = <<>>
                           ELSE WholeLine(i)

\* C35 amended: the calls are mutually exclusive between Lock and Unlock and what they
\* append never interleaves; a call that returned nil with a non-empty path appended exactly
\* one whole line; a call whose MkdirAll or OpenFile failed appended nothing and a call
\* whose write failed appended less than a line, and each returns that error; a call with
\* an empty path writes nothing, takes no lock and returns nil.
C35_SuccessfulCallAppendsOneLine ==
  /\ Cardinality(InLocked) <= 1
  /\ \A i \in InLocked : flog.mu = i
  /\ NoInterleaving
  /\ \A i \in 1..MaxCalls :
       /\ Len(PartsOf(i)) <= 2
       /\ \A k \in 1..Len(PartsOf(i)) : PartsOf(i)[k].part = k
       /\ flog.calls[i].pc = "returned" =>
            /\ flog.path = "" => flog.calls[i].ret = "nil" /\ flog.file = <<>> /\ flog.mu = 0
            /\ (flog.path # "" /\ flog.calls[i].ret = "nil") => WholeLine(i)
            /\ flog.calls[i].ret \in {"mkErr", "openErr"} => PartsOf(i) = <<>>
            /\ flog.calls[i].ret = "writeErr" => Len(PartsOf(i)) < 2
            /\ flog.calls[i].ret = "mkErr" => HasDir(flog.path)

\* one call returned after a whole line, a second wrote half its line, a third waits for
\* the mutex
C35_Witness ==
  /\ flog.path # ""
  /\ \E i \in 1..MaxCalls, j \in 1..MaxCalls, k \in 1..MaxCalls :
       /\ flog.calls[i].pc = "returned" /\ flog.calls[i].ret = "nil" /\ WholeLine(i)
       /\ flog.calls[j].pc = "write2"
       /\ flog.calls[k].pc = "lock"

====
